---- MODULE Spec2Model ----
(***************************************************************************)
(* The barrage funnel of TkVoiceJourney: LRUCache, TokenBucket,            *)
(* KeywordFilter, LocalClassifier, SmartBarrageProcessor,                  *)
(* SmartBatchProcessor and OptimizedAIJudge of src/app/ai_judge.py and     *)
(* src/app/ai_judge_simple.py.                                             *)
(*                                                                         *)
(* Units.  Scores of calculate_score are in thousandths (0.9 -> 900); the  *)
(* local score and every confidence are in ten-thousandths (0.8 -> 8000),  *)
(* so that 0.7*kw + 0.3*q is the integer 7*kw + 3*q.  Wall-clock readings  *)
(* are in ticks of 0.1 s; tokens are in units of 1/TokenUnit token, and    *)
(* refill_rate is in such units per tick (5.0 tokens/s = 1 unit per tick). *)
(* Barrage timestamps are in seconds.                                      *)
(***************************************************************************)
EXTENDS Integers, Sequences, FiniteSets, TLC

VARIABLES
    variant,            \* "full": ai_judge.py, "simple": ai_judge_simple.py
    api_ready,          \* ContextAwareAIJudge.api_ready
    dedup_cache,        \* SmartBarrageProcessor.dedup_cache : LRUCache
    rate_limiter,       \* SmartBarrageProcessor.rate_limiter : TokenBucket
    now,                \* the reading time.time() returns
    current_batch,      \* SmartBatchProcessor.current_batch
    last_process_time,  \* SmartBatchProcessor.last_process_time
    pc,                 \* where the process_barrage_stream call in flight is
    cur,                \* the barrage of the last call
    result,             \* the ProcessResult of the last process_barrage
    gates,              \* the gates the last process_barrage evaluated, in order
    reply,              \* what the last process_barrage_stream returned
    stats,              \* OptimizedAIJudge.stats
    tasks,              \* the process_barrage_stream calls of concurrent callers
    processing_lock,    \* SmartBatchProcessor.processing_lock: its holder
    barrage_buffer,     \* main.barrage_buffer
    loop,               \* process_barrage_intelligently: where it is, its locals
    cost_tracker,       \* ContextAwareAIJudge.cost_tracker : CostTracker
    today,              \* datetime.now().date(), as a day number
    api_call,           \* the _call_openai_api call in flight
    hist                \* bookkeeping of the run, read by the properties only

vars == <<variant, api_ready, dedup_cache, rate_limiter, now, current_batch,
          last_process_time, pc, cur, result, gates, reply, stats, tasks,
          processing_lock, barrage_buffer, loop, cost_tracker, today, api_call,
          hist>>

\* the state of main.py, and that of _call_openai_api and its CostTracker
main_vars == <<barrage_buffer, loop>>
api_vars == <<cost_tracker, today, api_call>>

----------------------------------------------------------------------------
(* Bounds of the model *)

\* LRUCache(maxsize=...) of the dedup cache, scaled down from 1000
DedupMaxSize == 4
\* TokenBucket(capacity=...), scaled down from 50
Capacity == 2
\* SmartBatchProcessor.batch_size, scaled down from 5
BatchSize == 2
\* calls of process_barrage_stream, and of a bare consume, in one run
MaxEvents == 3
\* calls of process_barrage in one run of the whole funnel
MaxFunnelCalls == 3
\* calls of process_barrage in one run of the dedup gate: enough to fill the
\* dedup cache, push the first barrage out and submit it again
MaxDedupCalls == DedupMaxSize \div 2 + 2
\* LRUCache(maxsize=...) of a bare cache
LruMaxSize == 3
\* the pieces a scored content is made of, at most
MaxPieces == 3
\* CostTracker.daily_budget, in calls (10.0 / 0.002 = 5000 in the source)
DailyBudget == 2
\* days a run lasts after the first
MaxDay == 1

(* Program constants *)

\* one token, in token units (a tick of 0.1 s refills half a token)
TokenUnit == 2
\* refill_rate=5.0 tokens per second, in token units per tick
RefillRate == 1
\* dedup_window, seconds
dedup_window == 300
\* max_wait_time=10.0 s, in ticks
max_wait_time == 100
\* delay=2.0 s of a DEFER, in ticks
DeferDelay == 20
\* local_score > 0.8 routes to PROCESS
HighConfidence == 8000
\* confidence=1.0 of the forced keyword match
FullConfidence == 10000
\* batch_judge_barrages hands the window to the oracle in groups of 3
JudgeGroupSize == 3
\* ContextAwareAIJudge.max_retries
max_retries == 3
\* the polling loop keeps the barrages of the last 60 seconds
BufferKeep == 60
\* one second, in ticks
Second == 10

Variants == {"full", "simple"}

----------------------------------------------------------------------------
(* Strings: a content is a sequence of characters, each character a name.   *)
(* CJK characters are written in pinyin: jia ge = U+4EF7 U+683C, and so on. *)

Digits == {"6", "9"}
LowerLetters == {"a", "b", "c", "d", "e", "q"}
UpperLetters == {"A", "Q"}
Whitespace == {" "}
Emoji == {"emoji"}      \* a code point of U+1F600..U+1F64F
OtherEmoji == {"hug"}   \* U+1F917, an emoji outside the ranges of _is_pure_emoji

\* str.lower() on one character
LowerChar(ch) == CASE ch = "A" -> "a" [] ch = "Q" -> "q" [] OTHER -> ch

Lower(s) == [i \in 1..Len(s) |-> LowerChar(s[i])]

\* str.strip(): leading and trailing whitespace removed
Strip(s) ==
    LET keep == {i \in 1..Len(s) : s[i] \notin Whitespace}
    IN  IF keep = {} THEN <<>>
        ELSE LET lo == CHOOSE i \in keep : \A j \in keep : i <= j
                 hi == CHOOSE i \in keep : \A j \in keep : j <= i
             IN  SubSeq(s, lo, hi)

\* `k in s` for strings
Contains(s, k) ==
    \E i \in 1..(Len(s) - Len(k) + 1) : SubSeq(s, i, i + Len(k) - 1) = k

\* re.search of a run of at least n characters of class cls
HasRun(s, cls, n) ==
    \E i \in 1..(Len(s) - n + 1) : \A j \in i..(i + n - 1) : s[j] \in cls

\* re.search(r'(.)\1{5,}'): one character n times in a row
HasRepeat(s, n) ==
    \E i \in 1..(Len(s) - n + 1) : \A j \in i..(i + n - 1) : s[j] = s[i]

RECURSIVE SumWeights(_)
SumWeights(S) ==
    IF S = {} THEN 0
    ELSE LET x == CHOOSE y \in S : TRUE IN x.w + SumWeights(S \ {x})

Min(a, b) == IF a <= b THEN a ELSE b
Max(a, b) == IF a >= b THEN a ELSE b

----------------------------------------------------------------------------
(* The contents of the model *)

C_666 == <<"6", "6", "6">>
C_keyiniu == <<"ke", "yi", "niu">>
C_abcde == <<"a", "b", "c", "d", "e">>
C_jidian == <<"ji", "dian">>
C_jidianq == <<"ji", "dian", "?">>
C_jidiansp == <<"ji", "dian", " ">>
C_price == <<"jia", "ge", "duo", "shao", "qian", "?">>
C_jidianprice == <<"ji", "dian", "duo", "shao", "qian">>
C_taocan == <<"tao", "can">>
C_short == <<" ", "6", " ">>
C_emoji == <<"emoji", "emoji">>
C_hugs == <<"hug", "hug">>
C_blank == <<" ", " ">>
\* one character more than _basic_filter of ai_judge.py lets through, and one
\* more than that of ai_judge_simple.py
C_long201 == [i \in 1..201 |-> "a"]
C_long501 == [i \in 1..501 |-> "a"]
\* the value of barrage['content'] when the key holds None (JSON null)
NullContent == <<"None">>
\* contents with a spam pattern: three exclamation marks after a keyword,
\* and a QQ number before one
C_jidianbang == <<"ji", "dian", "!", "!", "!">>
C_pricebang == <<"jia", "ge", "!", "!", "!">>
C_qqprice == <<"Q", "Q", ":", "6", " ", "jia", "ge">>


AllContents ==
    {<<>>, C_666, C_keyiniu, C_abcde, C_jidian, C_jidianq, C_jidiansp, C_price,
     C_jidianprice, C_taocan, C_short, C_emoji, C_hugs, C_blank, C_long201,
     C_long501, C_jidianbang, C_pricebang, C_qqprice}

----------------------------------------------------------------------------
(* KeywordFilter.  The tables hold every keyword of the source that can be  *)
(* written with the characters of the model; a keyword with any other       *)
(* character matches no content of the model.                               *)

\* KeywordFilter.high_value_keywords
high_value_keywords(v) ==
    IF v = "full"
    THEN { [kw |-> <<"jia", "ge">>, w |-> 900],            \* jia ge 0.9
           [kw |-> <<"duo", "shao", "qian">>, w |-> 900],  \* duo shao qian 0.9
           [kw |-> <<"ji", "dian">>, w |-> 800],           \* ji dian 0.8
           [kw |-> <<"ke", "yi">>, w |-> 500] }            \* ke yi 0.5
    ELSE { [kw |-> <<"jia", "ge">>, w |-> 900],            \* HIGH_VALUE_KEYWORDS,
           [kw |-> <<"duo", "shao", "qian">>, w |-> 900],  \* each 0.9
           [kw |-> <<"ji", "dian">>, w |-> 900] }

\* KeywordFilter.negative_keywords
negative_keywords ==
    { [kw |-> <<"6", "6", "6">>, w |-> -500],
      [kw |-> <<"9", "9", "9">>, w |-> -500],
      [kw |-> <<"niu">>, w |-> -300] }

\* re.search(r'QQ[:fw:]\s*\d+'): QQ, a colon, any whitespace, a digit
HasQQ(s) ==
    \E i \in 1..(Len(s) - 3) :
        /\ s[i] = "Q" /\ s[i + 1] = "Q" /\ s[i + 2] = ":"
        /\ \E j \in (i + 3)..Len(s) :
               /\ s[j] \in Digits
               /\ \A k \in (i + 3)..(j - 1) : s[k] \in Whitespace

\* KeywordFilter._is_spam: [0-9]{6,}, [a-zA-Z]{10,}, (.)\1{5,}, [!]{3,},
\* QQ[:]\s*\d+.  The other patterns need characters the model does not have.
is_spam(content) ==
    \/ HasRun(content, Digits, 6)
    \/ HasRun(content, LowerLetters \cup UpperLetters, 10)
    \/ HasRepeat(content, 6)
    \/ HasRun(content, {"!"}, 3)
    \/ HasQQ(content)

\* calculate_score without the final max(0.0, min(1.0, score))
calculate_score_unclamped(v, raw) ==
    IF Len(Strip(raw)) < 2 THEN 0
    ELSE LET content == Lower(Strip(raw)) IN
         IF is_spam(content) THEN 0
         ELSE SumWeights({k \in high_value_keywords(v) : Contains(content, k.kw)})
              + SumWeights({k \in negative_keywords : Contains(content, k.kw)})
              + Min(200, Len(content) * 10)

\* KeywordFilter.calculate_score, in thousandths
calculate_score(v, raw) ==
    IF Len(Strip(raw)) < 2 THEN 0
    ELSE LET content == Lower(Strip(raw)) IN
         IF is_spam(content) THEN 0
         ELSE LET high == SumWeights({k \in high_value_keywords(v) :
                                          Contains(content, k.kw)})
                  neg == SumWeights({k \in negative_keywords :
                                          Contains(content, k.kw)})
                  length_bonus == Min(200, Len(content) * 10)
              IN  Max(0, Min(1000, high + neg + length_bonus))

\* LocalClassifier.question_patterns that the characters of the model can
\* match: [?fw?], shen me[^0-9]*, ji dian[^0-9]*, duo shao[^0-9]*;
\* `X[^0-9]*` is found exactly where X is.
QuestionHits(content) ==
    (IF Contains(content, <<"?">>) \/ Contains(content, <<"?fw">>) THEN 1 ELSE 0)
  + (IF Contains(content, <<"shen", "me">>) THEN 1 ELSE 0)
  + (IF Contains(content, <<"ji", "dian">>) THEN 1 ELSE 0)
  + (IF Contains(content, <<"duo", "shao">>) THEN 1 ELSE 0)

\* LocalClassifier._calculate_question_score, in thousandths
calculate_question_score(content) == Min(1000, 300 * QuestionHits(content))

\* LocalClassifier.classify, in ten-thousandths
classify(v, content) ==
    IF content = <<>> THEN 0
    ELSE Min(10000, 7 * calculate_score(v, content)
                    + 3 * calculate_question_score(content))

\* AI_JUDGE_CONFIG["keyword_threshold"] = 0.05, and 0.1 in ai_judge.py
keyword_threshold(v) == IF v = "full" THEN 100 ELSE 50
\* AI_JUDGE_CONFIG["local_score_threshold"] = 0.2, and 0.3 in ai_judge.py
local_score_threshold(v) == IF v = "full" THEN 3000 ELSE 2000
\* the longest content _basic_filter lets through
max_content_length(v) == IF v = "full" THEN 200 ELSE 500

\* high_value_keywords of ai_judge_simple.process_barrage (none in ai_judge.py)
forced_keywords(v) ==
    IF v = "simple"
    THEN { <<"jia", "ge">>, <<"duo", "shao", "qian">>, <<"tao", "can">> }
    ELSE {}

ForcedMatch(v, content) == \E k \in forced_keywords(v) : Contains(content, k)

----------------------------------------------------------------------------
(* Barrages *)

TextTypes == {"chat", "emoji_chat"}

Barrage(t, c, u, ts) == [type |-> t, content |-> c, user_id |-> u, timestamp |-> ts]

\* SmartBarrageProcessor._is_pure_emoji
is_pure_emoji(content) ==
    LET left == {i \in 1..Len(content) : content[i] \notin Emoji \cup Whitespace}
    IN  left = {}

\* SmartBarrageProcessor._basic_filter raises AttributeError: the type is a
\* text type and barrage.get('content', '') is None, which has no strip()
basic_filter_raises(barrage) ==
    /\ barrage.type \in TextTypes
    /\ barrage.content = NullContent

\* SmartBarrageProcessor._basic_filter, where it does not raise: the type is
\* checked before the content is read
basic_filter(v, barrage) ==
    LET content == Strip(barrage.content) IN
    /\ barrage.type \in TextTypes
    /\ Len(content) >= 2
    /\ Len(content) <= max_content_length(v)
    /\ ~is_pure_emoji(content)

\* hashlib.md5(content.encode()).hexdigest()[:8]: a digest into a space far
\* smaller than the set of contents, so distinct contents can share it.
CharCode(ch) ==
    CASE ch = "6" -> 1 [] ch = "9" -> 2 [] ch = "a" -> 3 [] ch = "b" -> 4
      [] ch = "c" -> 5 [] ch = "d" -> 6 [] ch = "e" -> 7 [] ch = "A" -> 8
      [] ch = " " -> 9 [] ch = "?" -> 10 [] ch = "?fw" -> 11 [] ch = "!" -> 12
      [] ch = "emoji" -> 13 [] ch = "ke" -> 14 [] ch = "yi" -> 15
      [] ch = "niu" -> 16 [] ch = "jia" -> 17 [] ch = "ge" -> 18
      [] ch = "duo" -> 19 [] ch = "shao" -> 20 [] ch = "qian" -> 21
      [] ch = "ji" -> 22 [] ch = "dian" -> 23 [] ch = "tao" -> 24
      [] ch = "can" -> 25 [] ch = "hug" -> 26
      [] ch = "shen" -> 27 [] ch = "me" -> 28 [] ch = "Q" -> 29 [] ch = "q" -> 30
      [] ch = ":" -> 31 [] OTHER -> 0

\* 31^n modulo 997
RECURSIVE Pow31(_)
Pow31(n) ==
    IF n = 0 THEN 1
    ELSE LET h == Pow31(n \div 2)
         IN  (h * h * (IF n % 2 = 1 THEN 31 ELSE 1)) % 997

\* the sum of CharCode(s[i]) * 31^(i - lo) over lo..hi, modulo 997
RECURSIVE CodeSum(_, _, _)
CodeSum(s, lo, hi) ==
    IF lo > hi THEN 0
    ELSE IF lo = hi THEN CharCode(s[lo])
    ELSE LET mid == (lo + hi) \div 2
         IN  (CodeSum(s, lo, mid) + Pow31(mid + 1 - lo) * CodeSum(s, mid + 1, hi)) % 997

\* the digest of <<>> is 7 and that of <<c>> \o s is 31 * Digest(s) + CharCode(c),
\* modulo 997
Digest(s) == (7 * Pow31(Len(s)) + CodeSum(s, 1, Len(s))) % 997

content_hash(content) == Digest(content)

\* The pure functions of a content, evaluated once per content of the model
ScoreOf == [v \in Variants |-> [c \in AllContents |-> calculate_score(v, c)]]
LocalOf == [v \in Variants |-> [c \in AllContents |-> classify(v, c)]]
\* the forced-keyword table in which no content matches
ForcedOf_never == [v \in Variants |-> [c \in AllContents |-> FALSE]]
ForcedOf == [v \in Variants |-> [c \in AllContents |-> ForcedMatch(v, c)]]
HashOf == [c \in AllContents |-> content_hash(c)]
FilterOf ==
    [v \in Variants |-> [t \in TextTypes \cup {"gift"} |->
        [c \in AllContents \cup {NullContent} |-> basic_filter(v, Barrage(t, c, "", 0))]]]


----------------------------------------------------------------------------
(* LRUCache: cache is a function on the stored keys, access_order the deque *)

None == "None"

EmptyCache == [k \in {} |-> 0]

LRUCache(maxsize) ==
    [maxsize |-> maxsize, cache |-> EmptyCache, access_order |-> <<>>]

\* deque.remove(key): the first occurrence is taken out
RemoveFirst(q, key) ==
    IF \E i \in 1..Len(q) : q[i] = key
    THEN LET i == CHOOSE j \in 1..Len(q) :
                      q[j] = key /\ \A m \in 1..(j - 1) : q[m] # key
         IN  SubSeq(q, 1, i - 1) \o SubSeq(q, i + 1, Len(q))
    ELSE q

\* dict with key set to value
SetItem(cache, key, value) ==
    [k \in DOMAIN cache \cup {key} |-> IF k = key THEN value ELSE cache[k]]

\* del cache[key]
DelItem(cache, key) == [k \in DOMAIN cache \ {key} |-> cache[k]]

\* LRUCache.__contains__
lru_contains(l, key) == key \in DOMAIN l.cache

\* LRUCache.get that leaves access_order as it is
lru_get_no_refresh(l, key) == l

\* LRUCache.get: the cache after the call
lru_get(l, key) ==
    IF key \in DOMAIN l.cache
    THEN [l EXCEPT !.access_order = Append(RemoveFirst(@, key), key)]
    ELSE l

\* LRUCache.get: the value returned
lru_get_value(l, key) ==
    IF key \in DOMAIN l.cache THEN l.cache[key] ELSE None

\* LRUCache.put that evicts only above maxsize (> for >=)
lru_put_no_evict(l, key, value) ==
    LET l1 == IF key \in DOMAIN l.cache
              THEN [l EXCEPT !.access_order = RemoveFirst(@, key)]
              ELSE IF Cardinality(DOMAIN l.cache) > l.maxsize /\ l.access_order # <<>>
              THEN LET oldest == Head(l.access_order)
                   IN  [l EXCEPT !.access_order = Tail(@),
                                 !.cache = DelItem(@, oldest)]
              ELSE l
    IN  [l1 EXCEPT !.cache = SetItem(@, key, value),
                   !.access_order = Append(@, key)]

\* LRUCache.put that leaves the old position of a stored key in access_order
lru_put_keeps_position(l, key, value) ==
    LET l1 == IF key \in DOMAIN l.cache
              THEN l
              ELSE IF Cardinality(DOMAIN l.cache) >= l.maxsize /\ l.access_order # <<>>
              THEN LET oldest == Head(l.access_order)
                   IN  [l EXCEPT !.access_order = Tail(@),
                                 !.cache = DelItem(@, oldest)]
              ELSE l
    IN  [l1 EXCEPT !.cache = SetItem(@, key, value),
                   !.access_order = Append(@, key)]

\* LRUCache.put
lru_put(l, key, value) ==
    LET l1 == IF key \in DOMAIN l.cache
              THEN [l EXCEPT !.access_order = RemoveFirst(@, key)]
              ELSE IF Cardinality(DOMAIN l.cache) >= l.maxsize /\ l.access_order # <<>>
              THEN LET oldest == Head(l.access_order)
                   IN  [l EXCEPT !.access_order = Tail(@),
                                 !.cache = DelItem(@, oldest)]
              ELSE l
    IN  [l1 EXCEPT !.cache = SetItem(@, key, value),
                   !.access_order = Append(@, key)]

----------------------------------------------------------------------------
(* TokenBucket *)

TokenBucket(capacity, refill_rate, t) ==
    [capacity |-> capacity, tokens |-> capacity,
     refill_rate |-> refill_rate, last_refill |-> t]

\* _refill that leaves last_refill as it is
refill_keeps_last_refill(b, t) ==
    LET tokens_to_add == (t - b.last_refill) * b.refill_rate
    IN  [b EXCEPT !.tokens = Min(b.capacity, b.tokens + tokens_to_add)]

\* TokenBucket._refill at the reading t of time.time()
refill(b, t) ==
    LET tokens_to_add == (t - b.last_refill) * b.refill_rate
    IN  [b EXCEPT !.tokens = Min(b.capacity, b.tokens + tokens_to_add),
                  !.last_refill = t]

\* consume that wants more than `tokens` in the bucket (> for >=)
consume_ok_strict(b, tokens, t) == refill(b, t).tokens > tokens

\* TokenBucket.consume at the reading t: the value returned
consume_ok(b, tokens, t) == refill(b, t).tokens >= tokens

\* consume that grants without subtracting
consume_keeps_tokens(b, tokens, t) == refill(b, t)

\* TokenBucket.consume at the reading t: the bucket after the call
consume(b, tokens, t) ==
    LET r == refill(b, t)
    IN  IF r.tokens >= tokens THEN [r EXCEPT !.tokens = @ - tokens] ELSE r

----------------------------------------------------------------------------
(* SmartBarrageProcessor *)

content_key(barrage) == <<"content", "", HashOf[barrage.content]>>
user_key(barrage) == <<"user", barrage.user_id, HashOf[barrage.content]>>

\* _is_duplicate without the content check
is_duplicate_user_only(dc, barrage) ==
    LET ck == content_key(barrage)
        uk == user_key(barrage)
        timestamp == barrage.timestamp
    IN  IF lru_contains(dc, uk)
        THEN [dup |-> TRUE, cache |-> dc]
        ELSE [dup |-> FALSE,
              cache |-> lru_put(lru_put(dc, ck, timestamp), uk, timestamp)]

\* _is_duplicate without the user check
is_duplicate_content_only(dc, barrage) ==
    LET ck == content_key(barrage)
        uk == user_key(barrage)
        timestamp == barrage.timestamp
        hit == lru_contains(dc, ck)
        dc1 == IF hit THEN lru_get(dc, ck) ELSE dc
    IN  IF hit /\ timestamp - lru_get_value(dc, ck) < dedup_window
        THEN [dup |-> TRUE, cache |-> dc1]
        ELSE [dup |-> FALSE,
              cache |-> lru_put(lru_put(dc1, ck, timestamp), uk, timestamp)]

\* _is_duplicate with the window closed at dedup_window (<= for <)
is_duplicate_closed_window(dc, barrage) ==
    LET ck == content_key(barrage)
        uk == user_key(barrage)
        timestamp == barrage.timestamp
        hit == lru_contains(dc, ck)
        dc1 == IF hit THEN lru_get(dc, ck) ELSE dc
    IN  IF hit /\ timestamp - lru_get_value(dc, ck) <= dedup_window
        THEN [dup |-> TRUE, cache |-> dc1]
        ELSE IF lru_contains(dc1, uk)
        THEN [dup |-> TRUE, cache |-> dc1]
        ELSE [dup |-> FALSE,
              cache |-> lru_put(lru_put(dc1, ck, timestamp), uk, timestamp)]

\* _is_duplicate that records nothing
is_duplicate_no_record(dc, barrage) ==
    LET ck == content_key(barrage)
        uk == user_key(barrage)
        hit == lru_contains(dc, ck)
        dc1 == IF hit THEN lru_get(dc, ck) ELSE dc
    IN  IF hit /\ barrage.timestamp - lru_get_value(dc, ck) < dedup_window
        THEN [dup |-> TRUE, cache |-> dc1]
        ELSE IF lru_contains(dc1, uk)
        THEN [dup |-> TRUE, cache |-> dc1]
        ELSE [dup |-> FALSE, cache |-> dc1]

\* _is_duplicate that keeps the timestamp a content key already has
is_duplicate_keeps_first(dc, barrage) ==
    LET ck == content_key(barrage)
        uk == user_key(barrage)
        timestamp == barrage.timestamp
        hit == lru_contains(dc, ck)
        dc1 == IF hit THEN lru_get(dc, ck) ELSE dc
    IN  IF hit /\ timestamp - lru_get_value(dc, ck) < dedup_window
        THEN [dup |-> TRUE, cache |-> dc1]
        ELSE IF lru_contains(dc1, uk)
        THEN [dup |-> TRUE, cache |-> dc1]
        ELSE [dup |-> FALSE,
              cache |-> lru_put(IF hit THEN dc1 ELSE lru_put(dc1, ck, timestamp),
                                uk, timestamp)]

\* SmartBarrageProcessor._is_duplicate: [dup, cache], the value returned and
\* the dedup cache after the call
\* _is_duplicate with a window that slides: a content hit inside the window
\* stores the timestamp of the duplicate
is_duplicate_sliding(dc, barrage) ==
    LET ck == content_key(barrage)
        uk == user_key(barrage)
        timestamp == barrage.timestamp
        hit == lru_contains(dc, ck)
        dc1 == IF hit THEN lru_get(dc, ck) ELSE dc
    IN  IF hit /\ timestamp - lru_get_value(dc, ck) < dedup_window
        THEN [dup |-> TRUE, cache |-> lru_put(dc1, ck, timestamp)]
        ELSE IF lru_contains(dc1, uk)
        THEN [dup |-> TRUE, cache |-> dc1]
        ELSE [dup |-> FALSE,
              cache |-> lru_put(lru_put(dc1, ck, timestamp), uk, timestamp)]

is_duplicate(dc, barrage) ==
    LET ck == content_key(barrage)
        uk == user_key(barrage)
        timestamp == barrage.timestamp
        hit == lru_contains(dc, ck)
        dc1 == IF hit THEN lru_get(dc, ck) ELSE dc
    IN  IF hit /\ timestamp - lru_get_value(dc, ck) < dedup_window
        THEN [dup |-> TRUE, cache |-> dc1]
        ELSE IF lru_contains(dc1, uk)
        THEN [dup |-> TRUE, cache |-> dc1]
        ELSE [dup |-> FALSE,
              cache |-> lru_put(lru_put(dc1, ck, timestamp), uk, timestamp)]

ProcessResult(action, confidence, reason, delay) ==
    [action |-> action, confidence |-> confidence, reason |-> reason, delay |-> delay]

NoResult == ProcessResult("none", 0, "", 0)

\* gates 3 to 6 with the routing threshold at 0.7
score_gates_route_at_07(v, content, dc, rl, t, g) ==
    LET keyword_score == ScoreOf[v][content] IN
    IF keyword_score < keyword_threshold(v)
    THEN [result |-> ProcessResult("ignore", 0, "low_keyword_score", 0),
          cache |-> dc, bucket |-> rl, gates |-> g \o <<"keyword_floor">>]
    ELSE
    LET local_score == LocalOf[v][content] IN
    IF local_score < local_score_threshold(v)
    THEN [result |-> ProcessResult("ignore", 0, "low_local_score", 0),
          cache |-> dc, bucket |-> rl,
          gates |-> g \o <<"keyword_floor", "local_floor">>]
    ELSE
    IF ~consume_ok(rl, TokenUnit, t)
    THEN [result |-> ProcessResult("defer", 0, "rate_limit", DeferDelay),
          cache |-> dc, bucket |-> consume(rl, TokenUnit, t),
          gates |-> g \o <<"keyword_floor", "local_floor", "rate_limit">>]
    ELSE
    [result |-> IF local_score > 7000
                THEN ProcessResult("process", local_score, "", 0)
                ELSE ProcessResult("batch", local_score, "", 0),
     cache |-> dc, bucket |-> consume(rl, TokenUnit, t),
     gates |-> g \o <<"keyword_floor", "local_floor", "rate_limit", "routing">>]

\* gates 4 to 7 of process_barrage (3 to 6 in ai_judge.py): keyword floor,
\* local-score floor, rate limit, routing; dc is the dedup cache and g the
\* gates evaluated before them
score_gates(v, content, dc, rl, t, g) ==
    LET keyword_score == ScoreOf[v][content] IN
    IF keyword_score < keyword_threshold(v)
    THEN [result |-> ProcessResult("ignore", 0, "low_keyword_score", 0),
          cache |-> dc, bucket |-> rl, gates |-> g \o <<"keyword_floor">>]
    ELSE
    LET local_score == LocalOf[v][content] IN
    IF local_score < local_score_threshold(v)
    THEN [result |-> ProcessResult("ignore", 0, "low_local_score", 0),
          cache |-> dc, bucket |-> rl,
          gates |-> g \o <<"keyword_floor", "local_floor">>]
    ELSE
    IF ~consume_ok(rl, TokenUnit, t)
    THEN [result |-> ProcessResult("defer", 0, "rate_limit", DeferDelay),
          cache |-> dc, bucket |-> consume(rl, TokenUnit, t),
          gates |-> g \o <<"keyword_floor", "local_floor", "rate_limit">>]
    ELSE
    [result |-> IF local_score > HighConfidence
                THEN ProcessResult("process", local_score, "", 0)
                ELSE ProcessResult("batch", local_score, "", 0),
     cache |-> dc, bucket |-> consume(rl, TokenUnit, t),
     gates |-> g \o <<"keyword_floor", "local_floor", "rate_limit", "routing">>]

\* process_barrage with the two score floors before the dedup gate: a barrage
\* they reject is not recorded
process_barrage_floors_first(v, barrage, dc, rl, t) ==
    IF ~FilterOf[v][barrage.type][barrage.content]
    THEN [result |-> ProcessResult("ignore", 0, "basic_filter", 0),
          cache |-> dc, bucket |-> rl, gates |-> <<"basic_filter">>]
    ELSE
    LET content == barrage.content
        forced == v = "simple" /\ ForcedOf[v][content]
    IN
    IF ~forced /\ ScoreOf[v][content] < keyword_threshold(v)
    THEN [result |-> ProcessResult("ignore", 0, "low_keyword_score", 0),
          cache |-> dc, bucket |-> rl, gates |-> <<"basic_filter", "keyword_floor">>]
    ELSE
    IF ~forced /\ LocalOf[v][content] < local_score_threshold(v)
    THEN [result |-> ProcessResult("ignore", 0, "low_local_score", 0),
          cache |-> dc, bucket |-> rl,
          gates |-> <<"basic_filter", "keyword_floor", "local_floor">>]
    ELSE
    LET d == is_duplicate(dc, barrage) IN
    IF d.dup
    THEN [result |-> ProcessResult("ignore", 0, "duplicate", 0),
          cache |-> d.cache, bucket |-> rl, gates |-> <<"basic_filter", "dedup">>]
    ELSE
    IF forced
    THEN [result |-> ProcessResult("process", FullConfidence,
                                   "high_value_keyword_match", 0),
          cache |-> d.cache, bucket |-> rl,
          gates |-> <<"basic_filter", "dedup", "forced_keyword">>]
    ELSE score_gates(v, content, d.cache, rl, t,
                     IF v = "simple" THEN <<"basic_filter", "dedup", "forced_keyword">>
                                     ELSE <<"basic_filter", "dedup">>)

\* process_barrage with the dedup gate before the basic filter
process_barrage_dedup_first(v, barrage, dc, rl, t) ==
    LET d == is_duplicate(dc, barrage) IN
    IF d.dup
    THEN [result |-> ProcessResult("ignore", 0, "duplicate", 0),
          cache |-> d.cache, bucket |-> rl, gates |-> <<"basic_filter", "dedup">>]
    ELSE
    IF ~FilterOf[v][barrage.type][barrage.content]
    THEN [result |-> ProcessResult("ignore", 0, "basic_filter", 0),
          cache |-> d.cache, bucket |-> rl, gates |-> <<"basic_filter">>]
    ELSE
    IF v = "simple" /\ ForcedOf[v][barrage.content]
    THEN [result |-> ProcessResult("process", FullConfidence,
                                   "high_value_keyword_match", 0),
          cache |-> d.cache, bucket |-> rl,
          gates |-> <<"basic_filter", "dedup", "forced_keyword">>]
    ELSE score_gates(v, barrage.content, d.cache, rl, t,
                     IF v = "simple" THEN <<"basic_filter", "dedup", "forced_keyword">>
                                     ELSE <<"basic_filter", "dedup">>)

\* process_barrage with the rate limiter asked before the dedup verdict is
\* returned: a duplicate costs a token
process_barrage_dup_consumes(v, barrage, dc, rl, t) ==
    IF ~FilterOf[v][barrage.type][barrage.content]
    THEN [result |-> ProcessResult("ignore", 0, "basic_filter", 0),
          cache |-> dc, bucket |-> rl, gates |-> <<"basic_filter">>]
    ELSE
    LET d == is_duplicate(dc, barrage) IN
    IF d.dup
    THEN [result |-> ProcessResult("ignore", 0, "duplicate", 0),
          cache |-> d.cache, bucket |-> consume(rl, TokenUnit, t),
          gates |-> <<"basic_filter", "dedup">>]
    ELSE
    LET content == barrage.content
        g == IF v = "simple" THEN <<"basic_filter", "dedup", "forced_keyword">>
                             ELSE <<"basic_filter", "dedup">>
    IN
    IF v = "simple" /\ ForcedOf[v][content]
    THEN [result |-> ProcessResult("process", FullConfidence,
                                   "high_value_keyword_match", 0),
          cache |-> d.cache, bucket |-> rl, gates |-> g]
    ELSE score_gates(v, content, d.cache, rl, t, g)

\* SmartBarrageProcessor.process_barrage at the reading t of time.time():
\* [result, cache, bucket, gates], the ProcessResult, the dedup cache and the
\* token bucket after the call, and the gates evaluated, in order (the last
\* gate is "rate_limit" or "routing" exactly when consume was called).  The
\* action "raise" stands for an exception that leaves process_barrage.
process_barrage(v, barrage, dc, rl, t) ==
    IF basic_filter_raises(barrage)
    THEN [result |-> ProcessResult("raise", 0, "AttributeError", 0),
          cache |-> dc, bucket |-> rl, gates |-> <<"basic_filter">>]
    ELSE
    IF ~FilterOf[v][barrage.type][barrage.content]
    THEN [result |-> ProcessResult("ignore", 0, "basic_filter", 0),
          cache |-> dc, bucket |-> rl, gates |-> <<"basic_filter">>]
    ELSE
    LET d == is_duplicate(dc, barrage) IN
    IF d.dup
    THEN [result |-> ProcessResult("ignore", 0, "duplicate", 0),
          cache |-> d.cache, bucket |-> rl, gates |-> <<"basic_filter", "dedup">>]
    ELSE
    LET content == barrage.content
        g == IF v = "simple" THEN <<"basic_filter", "dedup", "forced_keyword">>
                             ELSE <<"basic_filter", "dedup">>
    IN
    IF v = "simple" /\ ForcedOf[v][content]
    THEN [result |-> ProcessResult("process", FullConfidence,
                                   "high_value_keyword_match", 0),
          cache |-> d.cache, bucket |-> rl, gates |-> g]
    ELSE score_gates(v, content, d.cache, rl, t, g)

----------------------------------------------------------------------------
(* The state after construction *)

\* readings of time.time(), in ticks: around max_wait_time
Clock == {0, 1, max_wait_time, max_wait_time + 1}

NoBarrage == Barrage("none", <<>>, "", 0)

Range(q) == {q[i] : i \in 1..Len(q)}

HistInit ==
    [calls |-> 0,           \* calls of process_barrage so far
     consumed |-> "none",   \* what consume returned in the last call, if called
     granted |-> 0,         \* calls of consume that returned True
     no_refill |-> TRUE,    \* no consume call has refilled the bucket yet
     mark |-> NoBarrage,    \* one barrage that _is_duplicate reported new
     mark_live |-> FALSE,   \* its content key was not evicted since
     recency |-> <<>>,      \* stored keys, least recently put or got first
     ins_order |-> <<>>,    \* keys in the order put, while only_puts
     only_puts |-> TRUE,    \* every call so far was a put of a new key
     evicted |-> {},        \* the keys the last call removed from the cache
     refreshed |-> FALSE,   \* a get hit has moved a key that was not the newest
     flushed |-> <<>>,      \* the window the last flush handed to the oracle
     appended |-> <<>>,     \* the barrages add_to_batch appended, in order
     batches |-> <<>>,      \* the windows flushed so far, in order
     window_start |-> 0,    \* the reading at which the window got its first event
     selected |-> "None",   \* the content the last flush generated the reply for
     oracle_calls |-> 0,    \* awaits of the oracle / reply generator
     failed |-> FALSE,      \* the last such await of the stream raised
     posts |-> 0,           \* HTTP attempts of the _call_openai_api call so far
     waits |-> <<>>,        \* the delays it slept between them, in seconds
     recorded |-> 0,        \* calls of record_call it made
     refused |-> FALSE,     \* within_budget() was False when it started
     submitted |-> <<>>,    \* the barrages the polling loop submitted, in order
     tick_replies |-> 0,    \* replies produced since the loop last woke up
     skipped |-> {},        \* barrages marked processed that a break left out
     received |-> 0,        \* calls of on_barrage_received
     before |-> [tokens |-> 0, last_refill |-> 0]]
                            \* the bucket at the last direct call of consume

\* the callers of process_barrage_stream that run concurrently, named in the
\* order in which they call
TaskOrder == <<"t1", "t2", "t3">>
Tasks == Range(TaskOrder)

\* a call that has not started: where it is, its barrage, the action
\* process_barrage returned for it, and the window its flush hands over
IdleTask == [pc |-> "idle", barrage |-> NoBarrage, action |-> "none", batch |-> <<>>]

StatsInit ==
    [total_processed |-> 0, ignored_count |-> 0, ai_calls |-> 0, batch_processed |-> 0]

\* CostTracker(): nothing spent, last reset today; costs in units of
\* cost_per_call
CostTracker(day) == [daily_cost |-> 0, last_reset |-> day]

\* no _call_openai_api call has been made
NoCall == [pc |-> "idle", attempt |-> 0]

\* process_barrage_intelligently has been created and sleeps; its locals
\* are not bound yet
LoopInit == [pc |-> "sleep", new_barrages |-> <<>>, i |-> 0, current_time |-> 0]

\* main.py at import, and ContextAwareAIJudge.__init__ on day 0
InitMain == barrage_buffer = <<>> /\ loop = LoopInit
InitApi == cost_tracker = CostTracker(0) /\ today = 0 /\ api_call = NoCall

\* OptimizedAIJudge.__init__ at the clock reading 0, and the task it creates,
\* _init_api_client, which has set api_ready
InitWith(v, rate, maxsize) ==
    /\ InitMain
    /\ InitApi
    /\ variant = v
    /\ api_ready = TRUE
    /\ dedup_cache = LRUCache(maxsize)
    /\ rate_limiter = TokenBucket(Capacity * TokenUnit, rate, 0)
    /\ now = 0
    /\ current_batch = <<>>
    /\ last_process_time = 0
    /\ pc = "idle"
    /\ cur = NoBarrage
    /\ result = NoResult
    /\ gates = <<>>
    /\ reply = None
    /\ stats = StatsInit
    /\ tasks = [t \in Tasks |-> IdleTask]
    /\ processing_lock = None
    /\ hist = HistInit

\* the clock moves between two readings; time.time() is the system clock and
\* is not monotonic
TickTo(readings) ==
    /\ \E t \in readings \ {now} : now' = t
    /\ UNCHANGED <<main_vars, api_vars, variant, api_ready, tasks, processing_lock, dedup_cache, rate_limiter, current_batch,
                   last_process_time, pc, cur, result, gates, reply, stats, hist>>

Tick == TickTo(Clock)

----------------------------------------------------------------------------
(* A bare LRUCache: get, put and `in` called directly *)

\* two keys more than the cache holds
LruKeys == {<<"content", "", k>> : k \in 1..(LruMaxSize + 2)}
LruValues == {0, dedup_window}

MoveLast(q, key) == Append(RemoveFirst(q, key), key)

\* bookkeeping of a use of `key` that leaves `stored` in the cache
HistUse(h, key, stored, isNewPut) ==
    [h EXCEPT !.evicted = Range(h.recency) \ stored,
              !.recency = SelectSeq(MoveLast(@, key), LAMBDA k : k \in stored),
              !.only_puts = @ /\ isNewPut /\ Len(h.ins_order) <= LruMaxSize,
              !.ins_order = IF h.only_puts /\ isNewPut /\ Len(@) <= LruMaxSize
                            THEN Append(@, key) ELSE <<>>]

LruGet ==
    \E key \in LruKeys :
        /\ dedup_cache' = lru_get(dedup_cache, key)
        /\ reply' = lru_get_value(dedup_cache, key)
        /\ hist' = IF key \in DOMAIN dedup_cache.cache
                   THEN [HistUse(hist, key, DOMAIN dedup_cache'.cache, FALSE)
                         EXCEPT !.refreshed = @ \/ hist.recency[Len(hist.recency)] # key]
                   ELSE [hist EXCEPT !.only_puts = FALSE, !.ins_order = <<>>,
                                     !.evicted = {}]
        /\ UNCHANGED <<main_vars, api_vars, variant, api_ready, tasks, processing_lock, rate_limiter, now, current_batch,
                       last_process_time, pc, cur, result, gates, stats>>

LruPut ==
    \E key \in LruKeys, value \in LruValues :
        /\ dedup_cache' = lru_put(dedup_cache, key, value)
        /\ reply' = None
        /\ hist' = HistUse(hist, key, DOMAIN dedup_cache'.cache,
                           key \notin DOMAIN dedup_cache.cache)
        /\ UNCHANGED <<main_vars, api_vars, variant, api_ready, tasks, processing_lock, rate_limiter, now, current_batch,
                       last_process_time, pc, cur, result, gates, stats>>

LruContains ==
    \E key \in LruKeys :
        /\ reply' = lru_contains(dedup_cache, key)
        /\ hist' = [hist EXCEPT !.only_puts = FALSE, !.ins_order = <<>>,
                                 !.evicted = {}]
        /\ UNCHANGED <<main_vars, api_vars, variant, api_ready, tasks, processing_lock, dedup_cache, rate_limiter, now, current_batch,
                       last_process_time, pc, cur, result, gates, stats>>

InitLRU == InitWith("full", RefillRate, LruMaxSize)
NextLRU == LruGet \/ LruPut \/ LruContains
SpecLRU == InitLRU /\ [][NextLRU]_vars

----------------------------------------------------------------------------
(* A bare TokenBucket: consume(1) called at any reading of the clock *)

HistConsume(h, ok, refilled) ==
    [h EXCEPT !.consumed = IF ok THEN "ok" ELSE "rejected",
              !.granted = IF ok THEN @ + 1 ELSE @,
              !.no_refill = @ /\ ~refilled]

\* whether a call of consume at the reading t adds or removes tokens by refill
Refills(b, t) == b.refill_rate # 0 /\ t # b.last_refill

BucketConsume ==
    /\ hist.calls < MaxEvents
    /\ rate_limiter' = consume(rate_limiter, TokenUnit, now)
    /\ hist' = [HistConsume(hist, consume_ok(rate_limiter, TokenUnit, now),
                            Refills(rate_limiter, now))
                EXCEPT !.calls = @ + 1]
    /\ UNCHANGED <<main_vars, api_vars, variant, api_ready, tasks, processing_lock, dedup_cache, now, current_batch,
                   last_process_time, pc, cur, result, gates, reply, stats>>

InitBucket == \E rate \in {0, RefillRate} : InitWith("full", rate, DedupMaxSize)
NextBucket == BucketConsume \/ Tick
SpecBucket == InitBucket /\ [][NextBucket]_vars

\* Runs of a bucket that is emptied and waited for: readings one token's
\* worth of refill apart (1 / refill_rate seconds), and one call more than
\* empties the bucket and uses the token
MaxRefillCalls == Capacity + 2
RefillClock == {0, 1, TokenUnit \div RefillRate, TokenUnit \div RefillRate + 1}

RefillConsume ==
    /\ hist.calls < MaxRefillCalls
    /\ rate_limiter' = consume(rate_limiter, TokenUnit, now)
    /\ hist' = [HistConsume(hist, consume_ok(rate_limiter, TokenUnit, now),
                            Refills(rate_limiter, now))
                EXCEPT !.calls = @ + 1,
                       !.before = [tokens |-> rate_limiter.tokens,
                                   last_refill |-> rate_limiter.last_refill]]
    /\ UNCHANGED <<main_vars, api_vars, variant, api_ready, tasks, processing_lock, dedup_cache, now, current_batch,
                   last_process_time, pc, cur, result, gates, reply, stats>>

RefillTick == TickTo(RefillClock)

InitRefill == InitWith("full", RefillRate, DedupMaxSize)
NextRefill == RefillConsume \/ RefillTick
SpecRefill == InitRefill /\ [][NextRefill]_vars

(* KeywordFilter.calculate_score and LocalClassifier.classify called directly *)
(* on contents put together from keywords, question words, spam and filler   *)

Pieces ==
    { <<"jia", "ge">>, <<"ji", "dian">>, <<"duo", "shao", "qian">>,
      <<"shen", "me", "?">>, <<"niu">>, <<"6", "6", "6">>, <<"!", "!", "!">>,
      <<"Q", "Q", ":", "6">>, <<"?">>, <<" ">> }

\* the contents of at most n pieces
RECURSIVE PieceStrings(_)
PieceStrings(n) ==
    IF n = 0 THEN {<<>>}
    ELSE LET shorter == PieceStrings(n - 1)
         IN  shorter \cup {s \o p : s \in shorter, p \in Pieces}

ScoreContents == PieceStrings(MaxPieces)

\* the value a scoring function returned
Scored(fn, value) == [action |-> fn, confidence |-> value, reason |-> "", delay |-> 0]

\* keyword_filter.calculate_score(content)
CalculateScore ==
    /\ result' = Scored("calculate_score", calculate_score(variant, cur.content))
    /\ hist' = [hist EXCEPT !.calls = 1]
    /\ UNCHANGED <<main_vars, api_vars, variant, api_ready, tasks, processing_lock, dedup_cache, rate_limiter, now,
                   current_batch, last_process_time, pc, cur, gates, reply, stats>>

\* local_classifier.classify(content)
Classify ==
    /\ result' = Scored("classify", classify(variant, cur.content))
    /\ hist' = [hist EXCEPT !.calls = 1]
    /\ UNCHANGED <<main_vars, api_vars, variant, api_ready, tasks, processing_lock, dedup_cache, rate_limiter, now,
                   current_batch, last_process_time, pc, cur, gates, reply, stats>>

InitScore ==
    /\ InitMain
    /\ InitApi
    /\ variant \in Variants
    /\ api_ready = TRUE
    /\ cur \in {Barrage("chat", c, "u1", 0) : c \in ScoreContents}
    /\ dedup_cache = LRUCache(DedupMaxSize)
    /\ rate_limiter = TokenBucket(Capacity * TokenUnit, RefillRate, 0)
    /\ now = 0
    /\ current_batch = <<>>
    /\ last_process_time = 0
    /\ pc = "idle"
    /\ result = NoResult
    /\ gates = <<>>
    /\ reply = None
    /\ stats = StatsInit
    /\ tasks = [t \in Tasks |-> IdleTask]
    /\ processing_lock = None
    /\ hist = HistInit

NextScore == CalculateScore \/ Classify
SpecScore == InitScore /\ [][NextScore]_vars

----------------------------------------------------------------------------
----------------------------------------------------------------------------
(* SmartBarrageProcessor.process_barrage called directly *)

\* bookkeeping of one process_barrage call that returned r; `take` says
\* whether the barrage, when _is_duplicate reported it new, becomes the mark
HistFunnel(h, barrage, rl, t, r, take) ==
    LET called == r.gates # <<>> /\ r.gates[Len(r.gates)] \in {"rate_limit", "routing"}
        ok == r.result.action \in {"process", "batch"}
        new == "dedup" \in Range(r.gates) /\ r.result.reason # "duplicate"
        h1 == IF called THEN HistConsume(h, ok, Refills(rl, t))
                        ELSE [h EXCEPT !.consumed = "none"]
    IN  [h1 EXCEPT !.calls = @ + 1,
                   !.mark = IF new /\ take THEN barrage ELSE @,
                   !.mark_live = IF new /\ take
                                 THEN content_key(barrage) \in DOMAIN r.cache.cache
                                 ELSE @ /\ content_key(h.mark) \in DOMAIN r.cache.cache]

\* one call of process_barrage, of at most `limit` in a run; the calls of
\* `takes` may mark their barrage
CallProcessBarrage(barrage, limit, takes) ==
    LET r == process_barrage(variant, barrage, dedup_cache, rate_limiter, now) IN
    /\ pc = "idle"
    /\ hist.calls < limit
    /\ cur' = barrage
    /\ result' = r.result
    /\ gates' = r.gates
    /\ dedup_cache' = r.cache
    /\ rate_limiter' = r.bucket
    /\ \E take \in takes : hist' = HistFunnel(hist, barrage, rate_limiter, now, r, take)
    /\ UNCHANGED <<main_vars, api_vars, variant, api_ready, tasks, processing_lock, now, current_batch, last_process_time, pc, reply, stats>>

\* Runs of the whole funnel: one user, one timestamp, a content for every gate
FunnelEvents ==
    {Barrage("chat", c, "u1", 0) :
        c \in {C_666, C_keyiniu, C_abcde, C_jidian, C_jidianq, C_jidiansp,
               C_price, C_taocan, C_short}}
    \cup {Barrage("gift", C_price, "u1", 0)}

FunnelCall ==
    \E barrage \in FunnelEvents : CallProcessBarrage(barrage, MaxFunnelCalls, {FALSE})

FunnelTick == TickTo({0, 1, 2})

InitFunnel ==
    \E v \in Variants, rate \in {0, RefillRate} : InitWith(v, rate, DedupMaxSize)
NextFunnel == FunnelCall \/ FunnelTick
SpecFunnel == InitFunnel /\ [][NextFunnel]_vars

\* Runs of the basic filter: every type with every kind of content, well
\* formed or not.  A barrage without the key 'content' reads as ''.
FilterContents ==
    {<<>>, NullContent, C_short, C_blank, C_emoji, C_hugs, C_long201, C_long501,
     C_jidian}

FilterEvents ==
    {Barrage(t, c, "u1", 0) : t \in TextTypes \cup {"gift"}, c \in FilterContents}

FilterCall ==
    \E barrage \in FilterEvents : CallProcessBarrage(barrage, MaxFunnelCalls, {FALSE})

InitFilter == \E v \in Variants : InitWith(v, RefillRate, DedupMaxSize)
NextFilter == FilterCall \/ FunnelTick
SpecFilter == InitFilter /\ [][NextFilter]_vars

\* Runs of the funnel on spam: contents with a spam pattern beside a keyword,
\* and one without
SpamEvents ==
    {Barrage("chat", c, u, 0) :
        c \in {C_jidianbang, C_pricebang, C_qqprice, C_jidianq}, u \in {"u1", "u2"}}

SpamCall ==
    \E barrage \in SpamEvents : CallProcessBarrage(barrage, MaxFunnelCalls, {FALSE})

InitSpam == \E v \in Variants : InitWith(v, RefillRate, DedupMaxSize)
NextSpam == SpamCall \/ FunnelTick
SpecSpam == InitSpam /\ [][NextSpam]_vars

\* Runs of the dedup gate: contents that the later gates ignore, from two
\* users, at timestamps on both sides of dedup_window
DedupTimestamps == {0, dedup_window - 1, dedup_window}

DedupEvents ==
    {Barrage("chat", c, u, ts) :
        c \in {C_666, C_abcde, C_taocan}, u \in {"u1", "u2"}, ts \in DedupTimestamps}

DedupCall ==
    \E barrage \in DedupEvents : CallProcessBarrage(barrage, MaxDedupCalls, BOOLEAN)

InitDedup == \E v \in Variants : InitWith(v, RefillRate, DedupMaxSize)
NextDedup == DedupCall
SpecDedup == InitDedup /\ [][NextDedup]_vars

\* Runs of a caller that submits a deferred barrage again: enough distinct
\* barrages to empty the bucket, at the timestamps before and after the delay
MaxRetryCalls == Capacity + 2

RetryTimestamps == {0, DeferDelay \div 10}

RetryEvents ==
    {Barrage("chat", c, "u1", ts) :
        c \in {C_jidian, C_jidianq, C_price, C_jidianprice}, ts \in RetryTimestamps}

RetryCall ==
    \E barrage \in RetryEvents : CallProcessBarrage(barrage, MaxRetryCalls, {FALSE})

RetryTick == TickTo({0, DeferDelay})

InitRetry == InitWith("full", RefillRate, DedupMaxSize)
NextRetry == RetryCall \/ RetryTick
SpecRetry == InitRetry /\ [][NextRetry]_vars

----------------------------------------------------------------------------
(* OptimizedAIJudge.process_barrage_stream, called by one caller at a time   *)
(* (the polling loop of main.py awaits each call).  The call is suspended    *)
(* where it awaits: asyncio.sleep of a DEFER, the oracle / reply generator   *)
(* of _immediate_process, and the oracle of _process_batch.                  *)

Outcomes == {"reply", "none", "error"}

\* judge_barrages, batch_judge_barrages and generate_reply of ai_judge.py
\* return at once, without a request, while api_ready is False;
\* ai_judge_simple.py has no such flag
OracleReady == variant = "simple" \/ api_ready

\* what the awaits of a call can come to
OutcomesNow == IF OracleReady THEN Outcomes ELSE {"none"}

\* the flush condition with the wait closed at max_wait_time (>= for >)
should_process_closed(batch, last, t) ==
    \/ Len(batch) >= BatchSize
    \/ t - last >= max_wait_time

\* the flush condition that wants more than batch_size events (> for >=)
should_process_late(batch, last, t) ==
    \/ Len(batch) > BatchSize
    \/ t - last > max_wait_time

\* the flush condition that looks at the wait only
should_process_time_only(batch, last, t) == t - last > max_wait_time

\* the flush condition that looks at the size only: no flush timer
should_process_size_only(batch, last, t) == Len(batch) >= BatchSize

\* the flush condition of SmartBatchProcessor.add_to_batch at the reading t
should_process(batch, last, t) ==
    \/ Len(batch) >= BatchSize
    \/ t - last > max_wait_time

\* process_barrage_stream up to its first await, or to its return; h is the
\* bookkeeping of the run at the call
SubmitCall(barrage, h) ==
    LET r == process_barrage(variant, barrage, dedup_cache, rate_limiter, now)
        action == r.result.action
        batch == Append(current_batch, barrage)
        buffered == action = "batch" /\ variant = "full"
    IN
    /\ pc = "idle"
    /\ stats.total_processed < MaxEvents
    /\ cur' = barrage
    /\ result' = r.result
    /\ gates' = r.gates
    /\ dedup_cache' = r.cache
    /\ rate_limiter' = r.bucket
    /\ hist' = [HistFunnel(h, barrage, rate_limiter, now, r, FALSE)
                    EXCEPT !.flushed = <<>>, !.selected = None, !.failed = FALSE,
                           !.window_start = IF buffered /\ current_batch = <<>>
                                            THEN now ELSE @]
    /\ stats' = [stats EXCEPT
                    !.total_processed = @ + 1,
                    !.ignored_count = IF action = "ignore" THEN @ + 1 ELSE @,
                    !.batch_processed = IF action = "batch" THEN @ + 1 ELSE @]
    /\ current_batch' = IF buffered THEN batch ELSE current_batch
    /\ pc' = CASE action \in {"ignore", "raise"} -> "idle"
               [] action = "process" -> "immediate"
               [] action = "defer" -> "sleep"
               [] buffered -> IF should_process(batch, last_process_time, now)
                              THEN "flush" ELSE "idle"
               [] OTHER -> "immediate"
    /\ reply' = None
    /\ UNCHANGED <<api_vars, variant, api_ready, tasks, processing_lock, now, last_process_time>>

\* process_barrage_stream called by a caller other than the polling loop
Submit(barrage) == SubmitCall(barrage, hist) /\ UNCHANGED main_vars

\* asyncio.sleep(result.delay) of a DEFER returns: _immediate_process is next
WakeUp ==
    /\ pc = "sleep"
    /\ pc' = "immediate"
    /\ UNCHANGED <<main_vars, api_vars, variant, api_ready, tasks, processing_lock, dedup_cache, rate_limiter, now, current_batch,
                   last_process_time, cur, result, gates, reply, stats, hist>>

\* what StreamingReplyProcessor.generate_reply returns when the reply
\* generator raises: the fixed text, shao deng o ...
Fallback == "fallback"

\* OptimizedAIJudge._immediate_process: the oracle and the reply generator
\* answer, answer nothing, or fail.  In ai_judge.py judge_barrages,
\* generate_reply and _immediate_process itself turn an exception into None;
\* in ai_judge_simple.py StreamingReplyProcessor.generate_reply turns it into
\* the fallback text, which _immediate_process returns.
ImmediateDone ==
    /\ pc = "immediate"
    /\ \E outcome \in OutcomesNow :
           /\ reply' = CASE outcome = "reply" -> "reply"
                         [] outcome = "error" /\ variant = "simple" -> Fallback
                         [] OTHER -> None
           /\ hist' = [hist EXCEPT !.oracle_calls = IF OracleReady THEN @ + 1 ELSE @,
                                   !.failed = (outcome = "error")]
    /\ stats' = [stats EXCEPT !.ai_calls = @ + 1]
    /\ pc' = "idle"
    /\ UNCHANGED <<main_vars, api_vars, variant, api_ready, tasks, processing_lock, dedup_cache, rate_limiter, now, current_batch,
                   last_process_time, cur, result, gates>>

\* the confidences the oracle answers with: 0.0 and 0.9
OracleConfidences == {0, 9000}

\* judge_barrages returns None unless the oracle finds value
NoJudgement == [has_value |-> FALSE, content |-> <<>>, confidence |-> 0]

\* ContextAwareAIJudge.batch_judge_barrages: the groups handed to judge_barrages
Groups(batch) ==
    [i \in 1..((Len(batch) + JudgeGroupSize - 1) \div JudgeGroupSize) |->
        SubSeq(batch, JudgeGroupSize * (i - 1) + 1, Min(JudgeGroupSize * i, Len(batch)))]

\* what judge_barrages can return for a group: nothing, or an AIJudgeResult
\* that names the content of one barrage of the group
Judgements(group) ==
    {NoJudgement} \cup
    {[has_value |-> TRUE, content |-> group[i].content, confidence |-> c] :
        i \in 1..Len(group), c \in OracleConfidences}

\* what batch_judge_barrages can return for the window: one result for each
\* group, or the empty list while api_ready is False
BatchJudgements(batch) ==
    LET groups == IF api_ready THEN Groups(batch) ELSE <<>> IN
    {results \in [DOMAIN groups -> UNION {Judgements(groups[i]) : i \in DOMAIN groups}] :
        \A i \in DOMAIN groups : results[i] \in Judgements(groups[i])}

\* _process_batch: the result with the highest confidence above 0.0, the
\* first of them when several have it; NoJudgement when there is none
best_result(results) ==
    LET valued == {i \in DOMAIN results :
                      results[i].has_value /\ results[i].confidence > 0}
    IN  IF valued = {} THEN NoJudgement
        ELSE results[CHOOSE i \in valued :
                         \A j \in valued :
                             \/ results[j].confidence < results[i].confidence
                             \/ results[j].confidence = results[i].confidence /\ i <= j]

\* _process_batch that keeps the window when the oracle or the reply
\* generator raises, to try it again with the next flush
FlushDone_keeps_failed ==
    /\ pc = "flush"
    /\ \E results \in BatchJudgements(current_batch), outcome \in OutcomesNow :
           LET best == best_result(results)
               replied == best.has_value /\ outcome = "reply"
           IN  /\ reply' = IF replied THEN "reply" ELSE None
               /\ hist' = [hist EXCEPT
                              !.oracle_calls = @ + Len(results),
                              !.flushed = current_batch,
                              !.window_start = 0,
                              !.failed = (outcome = "error"),
                              !.selected = IF best.has_value /\ outcome # "error"
                                           THEN best.content ELSE None]
               /\ current_batch' = IF outcome = "error" THEN current_batch ELSE <<>>
               /\ last_process_time' = IF outcome = "error" THEN last_process_time
                                                            ELSE now
    /\ pc' = "idle"
    /\ UNCHANGED <<main_vars, api_vars, variant, api_ready, tasks, processing_lock, dedup_cache, rate_limiter, now, cur, result, gates, stats>>

\* SmartBatchProcessor._process_batch after its awaits of the oracle and the
\* reply generator
FlushDone ==
    /\ pc = "flush"
    /\ \E results \in BatchJudgements(current_batch), outcome \in OutcomesNow :
           LET best == best_result(results)
               replied == best.has_value /\ outcome = "reply"
           IN  /\ reply' = IF replied THEN "reply" ELSE None
               /\ hist' = [hist EXCEPT
                              !.oracle_calls = @ + Len(results),
                              !.flushed = current_batch,
                              !.window_start = 0,
                              !.failed = (outcome = "error"),
                              !.selected = IF best.has_value /\ outcome # "error"
                                           THEN best.content ELSE None]
    /\ current_batch' = <<>>
    /\ last_process_time' = now
    /\ pc' = "idle"
    /\ UNCHANGED <<main_vars, api_vars, variant, api_ready, tasks, processing_lock, dedup_cache, rate_limiter, now, cur, result, gates, stats>>

StreamEvents ==
    {Barrage("chat", c, "u1", 0) :
        c \in {C_jidian, C_jidianq, C_price, C_jidianprice}}

StreamCall == \E barrage \in StreamEvents : Submit(barrage)

Init == \E v \in Variants : InitWith(v, RefillRate, DedupMaxSize)
Next == StreamCall \/ WakeUp \/ ImmediateDone \/ FlushDone \/ Tick
Spec == Init /\ [][Next]_vars

----------------------------------------------------------------------------
(* SmartBatchProcessor with the batch_size of the source: add_to_batch      *)
(* called directly, before and after _init_api_client has set api_ready     *)

\* SmartBatchProcessor.batch_size
batch_size == 5

\* calls of add_to_batch in a run: a full window and the adds after it
MaxAdds == batch_size + 1

WindowEvents == {Barrage("chat", c, "u1", 0) : c \in {C_jidian, C_jidianq}}

\* add_to_batch up to its await of _process_batch, or to its return
WindowAdd ==
    \E barrage \in WindowEvents :
        LET batch == Append(current_batch, barrage) IN
        /\ pc = "idle"
        /\ hist.calls < MaxAdds
        /\ cur' = barrage
        /\ current_batch' = batch
        /\ pc' = IF \/ Len(batch) >= batch_size
                    \/ now - last_process_time > max_wait_time
                 THEN "flush" ELSE "idle"
        /\ reply' = None
        /\ hist' = [hist EXCEPT !.calls = @ + 1,
                                !.flushed = <<>>, !.selected = None, !.failed = FALSE,
                                !.window_start = IF current_batch = <<>> THEN now ELSE @]
        /\ UNCHANGED <<main_vars, api_vars, variant, api_ready, dedup_cache, rate_limiter, now,
                       last_process_time, result, gates, stats, tasks, processing_lock>>

\* ContextAwareAIJudge._init_api_client, the task __init__ creates, succeeds
InitApiClient ==
    /\ ~api_ready
    /\ api_ready' = TRUE
    /\ UNCHANGED <<main_vars, api_vars, variant, dedup_cache, rate_limiter, now, current_batch,
                   last_process_time, pc, cur, result, gates, reply, stats, tasks,
                   processing_lock, hist>>

WindowTick == TickTo({0, max_wait_time + 1})

\* OptimizedAIJudge.__init__ of ai_judge.py at the clock reading 0
InitFlush ==
    /\ InitMain
    /\ InitApi
    /\ variant = "full"
    /\ api_ready = FALSE
    /\ dedup_cache = LRUCache(DedupMaxSize)
    /\ rate_limiter = TokenBucket(Capacity * TokenUnit, RefillRate, 0)
    /\ now = 0
    /\ current_batch = <<>>
    /\ last_process_time = 0
    /\ pc = "idle"
    /\ cur = NoBarrage
    /\ result = NoResult
    /\ gates = <<>>
    /\ reply = None
    /\ stats = StatsInit
    /\ tasks = [t \in Tasks |-> IdleTask]
    /\ processing_lock = None
    /\ hist = HistInit

NextFlush == WindowAdd \/ InitApiClient \/ FlushDone \/ WindowTick
SpecFlush == InitFlush /\ [][NextFlush]_vars

----------------------------------------------------------------------------
(* ContextAwareAIJudge._call_openai_api and its CostTracker, one call at a  *)
(* time.  The call is suspended where it awaits: client.post and             *)
(* asyncio.sleep.                                                            *)

\* CostTracker._check_reset on the day `day`
check_reset(ct, day) ==
    IF day > ct.last_reset THEN [daily_cost |-> 0, last_reset |-> day] ELSE ct

\* CostTracker.within_budget, after its _check_reset
within_budget(ct) == ct.daily_cost < DailyBudget

\* CostTracker.record_call(): cost_per_call is added
record_call(ct, day) ==
    LET ct1 == check_reset(ct, day) IN [ct1 EXCEPT !.daily_cost = @ + 1]

\* the delay that is one second whatever the attempt
retry_delay_fixed(attempt) == 1

\* asyncio.sleep(1 * (attempt + 1)), in seconds
retry_delay(attempt) == 1 * (attempt + 1)

\* calls of _call_openai_api in a run: until the budget is spent, and after
MaxApiCalls == DailyBudget + 2

\* _call_openai_api up to its first await, or to its raise
ApiCall ==
    LET ct == check_reset(cost_tracker, today) IN
    /\ api_call.pc \in {"idle", "returned", "raised"}
    /\ hist.calls < MaxApiCalls
    /\ cost_tracker' = ct
    /\ api_call' = [pc |-> IF within_budget(ct) THEN "post" ELSE "raised",
                    attempt |-> 0]
    /\ hist' = [hist EXCEPT !.calls = @ + 1, !.posts = 0, !.waits = <<>>,
                            !.recorded = 0, !.refused = ~within_budget(ct)]
    /\ UNCHANGED <<main_vars, today, variant, api_ready, dedup_cache, rate_limiter,
                   now, current_batch, last_process_time, pc, cur, result, gates,
                   reply, stats, tasks, processing_lock>>

\* client.post answers: the try block runs to its return, or something in
\* it raises (the request, raise_for_status, the parsing of the body)
ApiResponse ==
    /\ api_call.pc = "post"
    /\ \E ok \in BOOLEAN :
           IF ok
           THEN /\ cost_tracker' = record_call(cost_tracker, today)
                /\ api_call' = [api_call EXCEPT !.pc = "returned"]
                /\ hist' = [hist EXCEPT !.posts = @ + 1, !.recorded = @ + 1]
           ELSE /\ cost_tracker' = cost_tracker
                /\ IF api_call.attempt = max_retries - 1
                   THEN /\ api_call' = [api_call EXCEPT !.pc = "raised"]
                        /\ hist' = [hist EXCEPT !.posts = @ + 1]
                   ELSE /\ api_call' = [api_call EXCEPT !.pc = "sleep"]
                        /\ hist' = [hist EXCEPT
                                       !.posts = @ + 1,
                                       !.waits = Append(@, retry_delay(api_call.attempt))]
    /\ UNCHANGED <<main_vars, today, variant, api_ready, dedup_cache, rate_limiter,
                   now, current_batch, last_process_time, pc, cur, result, gates,
                   reply, stats, tasks, processing_lock>>

\* asyncio.sleep returns: the next attempt
ApiWakeUp ==
    /\ api_call.pc = "sleep"
    /\ api_call' = [pc |-> "post", attempt |-> api_call.attempt + 1]
    /\ UNCHANGED <<main_vars, cost_tracker, today, variant, api_ready, dedup_cache,
                   rate_limiter, now, current_batch, last_process_time, pc, cur,
                   result, gates, reply, stats, tasks, processing_lock, hist>>

\* midnight passes
NextDay ==
    /\ today < MaxDay
    /\ today' = today + 1
    /\ UNCHANGED <<main_vars, cost_tracker, api_call, variant, api_ready, dedup_cache,
                   rate_limiter, now, current_batch, last_process_time, pc, cur,
                   result, gates, reply, stats, tasks, processing_lock, hist>>

InitApiCall == InitWith("full", RefillRate, DedupMaxSize)
NextApi == ApiCall \/ ApiResponse \/ ApiWakeUp \/ NextDay
SpecApi == InitApiCall /\ [][NextApi]_vars

----------------------------------------------------------------------------
(* main.py: on_barrage_received fills barrage_buffer, and the polling loop  *)
(* process_barrage_intelligently hands its barrages to                      *)
(* process_barrage_stream.  A buffered barrage is the dict of the callback  *)
(* (id tells one dict from another) with its key 'processed'.  The loop is  *)
(* suspended where it awaits: asyncio.sleep(2), process_barrage_stream, and *)
(* the handling of a reply with the asyncio.sleep(5) after it.              *)

\* calls of on_barrage_received in a run
MaxReceived == MaxEvents

\* two contents that ai_judge_simple.py routes to Batch, and the null content
\* that makes process_barrage_stream raise
PollContents == {C_jidian, C_jidianq, NullContent}

\* time.time() in seconds
Seconds(t) == t \div Second

\* on_barrage_received(barrage_data): the timestamp is set and the dict is
\* appended to the buffer
Receive ==
    \E c \in PollContents :
        /\ hist.received < MaxReceived
        /\ barrage_buffer' =
               Append(barrage_buffer,
                      [id |-> hist.received + 1,
                       barrage |-> Barrage("chat", c, "u1", Seconds(now)),
                       processed |-> FALSE])
        /\ hist' = [hist EXCEPT !.received = @ + 1]
        /\ UNCHANGED <<loop, api_vars, variant, api_ready, dedup_cache, rate_limiter,
                       now, current_batch, last_process_time, pc, cur, result, gates,
                       reply, stats, tasks, processing_lock>>

\* the buffer without the barrages older than BufferKeep at current_time
trim(buffer, current_time) ==
    SelectSeq(buffer, LAMBDA e : current_time - e.barrage.timestamp <= BufferKeep)

\* the barrages of the buffer not yet marked, and the buffer with all marked
unprocessed(buffer) == SelectSeq(buffer, LAMBDA e : ~e.processed)
mark_processed(buffer) == [k \in DOMAIN buffer |-> [buffer[k] EXCEPT !.processed = TRUE]]

\* asyncio.sleep(2) returns: the new barrages are collected and marked, and
\* the first is handed to process_barrage_stream
PollWake ==
    LET new == unprocessed(barrage_buffer) IN
    /\ loop.pc = "sleep"
    /\ new # <<>>
    /\ barrage_buffer' = mark_processed(barrage_buffer)
    /\ loop' = [pc |-> "await", new_barrages |-> new, i |-> 1,
                current_time |-> Seconds(now)]
    /\ SubmitCall(new[1].barrage,
                  [hist EXCEPT !.submitted = Append(@, new[1].id),
                               !.tick_replies = 0])

\* process_barrage_stream has returned a reply and the loop goes on to the
\* next barrage all the same
PollResume_no_break ==
    LET i == loop.i
        new == loop.new_barrages
    IN
    /\ loop.pc = "await"
    /\ pc = "idle"
    /\ IF i < Len(new)
       THEN /\ loop' = [loop EXCEPT !.i = i + 1]
            /\ barrage_buffer' = barrage_buffer
            /\ SubmitCall(new[i + 1].barrage,
                          [hist EXCEPT !.submitted = Append(@, new[i + 1].id),
                                       !.tick_replies =
                                           IF reply # None /\ result.action # "raise"
                                           THEN @ + 1 ELSE @])
       ELSE /\ loop' = [loop EXCEPT !.pc = "sleep"]
            /\ barrage_buffer' = trim(barrage_buffer, loop.current_time)
            /\ hist' = [hist EXCEPT !.tick_replies =
                                        IF reply # None /\ result.action # "raise"
                                        THEN @ + 1 ELSE @]
            /\ UNCHANGED <<api_vars, variant, api_ready, dedup_cache, rate_limiter, now,
                           current_batch, last_process_time, pc, cur, result, gates,
                           reply, stats, tasks, processing_lock>>

\* process_barrage_stream has returned, or raised: with a reply the loop
\* hands it on and breaks; without one it takes the next barrage, and after
\* the last it trims the buffer and sleeps
PollResume ==
    LET i == loop.i
        new == loop.new_barrages
        replied == reply # None /\ result.action # "raise"
    IN
    /\ loop.pc = "await"
    /\ pc = "idle"
    /\ IF replied
       THEN /\ loop' = [loop EXCEPT !.pc = "reply"]
            /\ barrage_buffer' = barrage_buffer
            /\ hist' = [hist EXCEPT
                           !.tick_replies = @ + 1,
                           !.skipped = @ \cup {new[k].id : k \in (i + 1)..Len(new)}]
            /\ UNCHANGED <<api_vars, variant, api_ready, dedup_cache, rate_limiter, now,
                           current_batch, last_process_time, pc, cur, result, gates,
                           reply, stats, tasks, processing_lock>>
       ELSE IF i < Len(new)
       THEN /\ loop' = [loop EXCEPT !.i = i + 1]
            /\ barrage_buffer' = barrage_buffer
            /\ SubmitCall(new[i + 1].barrage,
                          [hist EXCEPT !.submitted = Append(@, new[i + 1].id)])
       ELSE /\ loop' = [loop EXCEPT !.pc = "sleep"]
            /\ barrage_buffer' = trim(barrage_buffer, loop.current_time)
            /\ UNCHANGED <<api_vars, variant, api_ready, dedup_cache, rate_limiter, now,
                           current_batch, last_process_time, pc, cur, result, gates,
                           reply, stats, tasks, processing_lock, hist>>

\* _handle_openai_fish_reply and asyncio.sleep(5) are over: break, the buffer
\* is trimmed and the loop sleeps
PollBreak ==
    /\ loop.pc = "reply"
    /\ loop' = [loop EXCEPT !.pc = "sleep"]
    /\ barrage_buffer' = trim(barrage_buffer, loop.current_time)
    /\ UNCHANGED <<api_vars, variant, api_ready, dedup_cache, rate_limiter, now,
                   current_batch, last_process_time, pc, cur, result, gates,
                   reply, stats, tasks, processing_lock, hist>>

PollTick == TickTo({0, (BufferKeep + 1) * Second})

\* main.py imports create_ai_judge from ai_judge_simple
InitPoll == InitWith("simple", RefillRate, DedupMaxSize)
NextPoll ==
    \/ Receive \/ PollWake \/ PollResume \/ PollBreak
    \/ WakeUp \/ ImmediateDone \/ PollTick
SpecPoll == InitPoll /\ [][NextPoll]_vars

\* Runs of the stream with an event for every reason to ignore: a gift, and
\* contents under the keyword floor and under the local floor of each variant
IgnoreEvents ==
    {Barrage("chat", c, "u1", 0) :
        c \in {C_666, C_keyiniu, C_abcde, C_jidian, C_price}}
    \cup {Barrage("gift", C_price, "u1", 0)}

IgnoreCall == \E barrage \in IgnoreEvents : Submit(barrage)

NextIgnore == IgnoreCall \/ ImmediateDone \/ FlushDone \/ Tick
SpecIgnore == Init /\ [][NextIgnore]_vars

----------------------------------------------------------------------------
(* process_barrage_stream calls of concurrent callers on one event loop.  A  *)
(* coroutine runs until it awaits something that suspends it: process_barrage *)
(* awaits only LocalClassifier.classify, which never suspends, so it runs in *)
(* one step; a call is suspended at the asyncio.sleep of a DEFER, at the     *)
(* oracle / reply generator, and at processing_lock when it is held.         *)

\* an asyncio.Lock that is always granted
lock_free_always(lock) == TRUE

\* asyncio.Lock.acquire returns without suspending: nobody holds the lock.
\* (asyncio serves the suspended callers first; here any caller may get a
\* free lock, which only adds interleavings.)
lock_free(lock) == lock = None

\* add_to_batch of task t from the moment it holds processing_lock: the
\* barrage is appended, and the window is flushed or the lock released
AddToBatch(t, barrage, tk) ==
    LET batch == Append(current_batch, barrage)
        flush == should_process(batch, last_process_time, now)
    IN  /\ current_batch' = batch
        /\ tasks' = [tasks EXCEPT ![t] =
                        [tk EXCEPT !.pc = IF flush THEN "flush" ELSE "done",
                                   !.batch = IF flush THEN batch ELSE <<>>]]
        /\ processing_lock' = IF flush THEN t ELSE processing_lock
        /\ reply' = None

\* process_barrage_stream of task t up to its first suspension, or its return
TaskSubmit(t, barrage) ==
    LET r == process_barrage(variant, barrage, dedup_cache, rate_limiter, now)
        action == r.result.action
        tk == [tasks[t] EXCEPT !.barrage = barrage, !.action = action]
    IN
    /\ tasks[t].pc = "idle"
    /\ \A i, j \in DOMAIN TaskOrder :
           (TaskOrder[i] = t /\ j < i) => tasks[TaskOrder[j]].pc # "idle"
    /\ cur' = barrage
    /\ result' = r.result
    /\ gates' = r.gates
    /\ dedup_cache' = r.cache
    /\ rate_limiter' = r.bucket
    /\ stats' = [stats EXCEPT
                    !.total_processed = @ + 1,
                    !.ignored_count = IF action = "ignore" THEN @ + 1 ELSE @,
                    !.batch_processed = IF action = "batch" THEN @ + 1 ELSE @]
    /\ LET h == HistFunnel(hist, barrage, rate_limiter, now, r, FALSE) IN
       IF action = "batch" /\ lock_free(processing_lock)
       THEN /\ AddToBatch(t, barrage, tk)
            /\ hist' = [h EXCEPT !.appended = Append(@, barrage)]
       ELSE /\ tasks' = [tasks EXCEPT ![t] =
                            [tk EXCEPT !.pc = CASE action = "ignore" -> "done"
                                                [] action = "process" -> "immediate"
                                                [] action = "defer" -> "sleep"
                                                [] OTHER -> "waiting"]]
            /\ hist' = h
            /\ reply' = None
            /\ UNCHANGED <<current_batch, processing_lock>>
    /\ UNCHANGED <<main_vars, api_vars, variant, api_ready, now, last_process_time, pc>>

\* processing_lock is released and task t, suspended at it, gets it
TaskAcquire(t) ==
    /\ tasks[t].pc = "waiting"
    /\ lock_free(processing_lock)
    /\ AddToBatch(t, tasks[t].barrage, tasks[t])
    /\ hist' = [hist EXCEPT !.appended = Append(@, tasks[t].barrage)]
    /\ UNCHANGED <<main_vars, api_vars, variant, api_ready, dedup_cache, rate_limiter, now, last_process_time,
                   pc, cur, result, gates, stats>>

\* _process_batch of task t after its awaits: the window is cleared and the
\* lock released
TaskFlushDone(t) ==
    /\ tasks[t].pc = "flush"
    /\ \E results \in BatchJudgements(tasks[t].batch), outcome \in OutcomesNow :
           reply' = IF best_result(results).has_value /\ outcome = "reply"
                    THEN "reply" ELSE None
    /\ current_batch' = <<>>
    /\ last_process_time' = now
    /\ processing_lock' = IF processing_lock = t THEN None ELSE processing_lock
    /\ tasks' = [tasks EXCEPT ![t].pc = "done"]
    /\ hist' = [hist EXCEPT !.oracle_calls = IF api_ready
                                              THEN @ + Len(Groups(tasks[t].batch))
                                              ELSE @,
                            !.batches = Append(@, tasks[t].batch)]
    /\ UNCHANGED <<main_vars, api_vars, variant, api_ready, dedup_cache, rate_limiter, now, pc, cur, result,
                   gates, stats>>

\* asyncio.sleep(result.delay) of a DEFER returns in task t
TaskWakeUp(t) ==
    /\ tasks[t].pc = "sleep"
    /\ tasks' = [tasks EXCEPT ![t].pc = "immediate"]
    /\ UNCHANGED <<main_vars, api_vars, variant, api_ready, dedup_cache, rate_limiter, now, current_batch,
                   last_process_time, pc, cur, result, gates, reply, stats,
                   processing_lock, hist>>

\* _immediate_process of task t returns
TaskImmediateDone(t) ==
    /\ tasks[t].pc = "immediate"
    /\ \E outcome \in OutcomesNow :
           reply' = IF outcome = "reply" THEN "reply" ELSE None
    /\ tasks' = [tasks EXCEPT ![t].pc = "done"]
    /\ stats' = [stats EXCEPT !.ai_calls = @ + 1]
    /\ hist' = [hist EXCEPT !.oracle_calls = IF OracleReady THEN @ + 1 ELSE @]
    /\ UNCHANGED <<main_vars, api_vars, variant, api_ready, dedup_cache, rate_limiter, now, current_batch,
                   last_process_time, pc, cur, result, gates, processing_lock>>

\* barrages of concurrent callers: three that are routed to Batch, one of
\* them sent by two users, and one routed to Process
ConcEvents ==
    {Barrage("chat", c, "u1", 0) : c \in {C_jidian, C_jidianq, C_jidiansp, C_price}}
    \cup {Barrage("chat", C_jidian, "u2", 0)}

ConcSubmit == \E t \in Tasks, barrage \in ConcEvents : TaskSubmit(t, barrage)
ConcAcquire == \E t \in Tasks : TaskAcquire(t)
ConcFlushDone == \E t \in Tasks : TaskFlushDone(t)
ConcWakeUp == \E t \in Tasks : TaskWakeUp(t)
ConcImmediateDone == \E t \in Tasks : TaskImmediateDone(t)
ConcTick == TickTo({0, max_wait_time + 1})

InitConc == InitWith("full", RefillRate, DedupMaxSize)
NextConc ==
    \/ ConcSubmit
    \/ ConcAcquire
    \/ ConcFlushDone
    \/ ConcWakeUp
    \/ ConcImmediateDone
    \/ ConcTick
SpecConc == InitConc /\ [][NextConc]_vars

----------------------------------------------------------------------------
(* Properties *)

\* a call of process_barrage happens in the step
Called == hist'.calls = hist.calls + 1

IsDuplicate(r) == r.action = "ignore" /\ r.reason = "duplicate"

\* the gates of process_barrage, in the order of the decision list
GateOrder(v) ==
    IF v = "simple"
    THEN <<"basic_filter", "dedup", "forced_keyword", "keyword_floor",
           "local_floor", "rate_limit", "routing">>
    ELSE <<"basic_filter", "dedup", "keyword_floor", "local_floor",
           "rate_limit", "routing">>

\* whether gate g, taken alone, fires for the barrage in the state (dc, rl, t)
Fires(g, v, barrage, dc, rl, t) ==
    CASE g = "basic_filter" -> ~FilterOf[v][barrage.type][barrage.content]
      [] g = "dedup" -> is_duplicate(dc, barrage).dup
      [] g = "forced_keyword" -> ForcedOf[v][barrage.content]
      [] g = "keyword_floor" -> ScoreOf[v][barrage.content] < keyword_threshold(v)
      [] g = "local_floor" -> LocalOf[v][barrage.content] < local_score_threshold(v)
      [] g = "rate_limit" -> ~consume_ok(rl, TokenUnit, t)
      [] g = "routing" -> TRUE

\* the result a gate gives when it fires
Verdict(g, v, barrage) ==
    CASE g = "basic_filter" -> ProcessResult("ignore", 0, "basic_filter", 0)
      [] g = "dedup" -> ProcessResult("ignore", 0, "duplicate", 0)
      [] g = "forced_keyword" ->
             ProcessResult("process", FullConfidence, "high_value_keyword_match", 0)
      [] g = "keyword_floor" -> ProcessResult("ignore", 0, "low_keyword_score", 0)
      [] g = "local_floor" -> ProcessResult("ignore", 0, "low_local_score", 0)
      [] g = "rate_limit" -> ProcessResult("defer", 0, "rate_limit", DeferDelay)
      [] g = "routing" ->
             LET local_score == LocalOf[v][barrage.content]
             IN  ProcessResult(IF local_score > HighConfidence THEN "process"
                               ELSE "batch", local_score, "", 0)

\* the position in GateOrder of the first gate that fires
FirstFiring(v, barrage, dc, rl, t) ==
    LET order == GateOrder(v) IN
    CHOOSE i \in 1..Len(order) :
        /\ Fires(order[i], v, barrage, dc, rl, t)
        /\ \A j \in 1..(i - 1) : ~Fires(order[j], v, barrage, dc, rl, t)

\* C1: process_barrage is a strict decision list.  Every call returns the
\* result of the first gate, in the order basic filter, dedup, forced keyword,
\* keyword floor, local floor, rate limit, routing, that fires in the state
\* before the call; the gates evaluated are exactly those up to it; the dedup
\* cache is untouched when the basic filter fires, and the token bucket is
\* untouched when a gate before the rate limit fires.
C1_DecisionList ==
    [][Called =>
        LET order == GateOrder(variant)
            i == FirstFiring(variant, cur', dedup_cache, rate_limiter, now)
        IN  /\ result' = Verdict(order[i], variant, cur')
            /\ gates' = SubSeq(order, 1, i)
            /\ order[i] = "basic_filter" => dedup_cache' = dedup_cache
            /\ order[i] \notin {"rate_limit", "routing"} => rate_limiter' = rate_limiter
            /\ order[i] \in {"rate_limit", "routing"} =>
                   rate_limiter' = consume(rate_limiter, TokenUnit, now)
            /\ (i > 2 \/ order[i] = "dedup") =>
                   dedup_cache' = is_duplicate(dedup_cache, cur').cache]_vars

\* a barrage that the basic filter rejects although the dedup cache holds its
\* content, after tokens were spent: nothing of the later gates happened
C1_Witness ==
    /\ result.reason = "basic_filter"
    /\ gates = <<"basic_filter">>
    /\ cur.type = "gift"
    /\ content_key(cur) \in DOMAIN dedup_cache.cache
    /\ hist.granted > 0

\* C2: every invocation of the oracle / reply generator is for an event that
\* a successful consume admitted, so the invocations never outnumber the
\* tokens granted.
C2_RateLimiterBounds ==
    /\ pc = "immediate" => hist.consumed = "ok"
    /\ hist.oracle_calls <= hist.granted

\* C3 as stated: the second of two events with one content, the first of which
\* passed the dedup gate at t1, is a duplicate when t2 - t1 < dedup_window.
C3_DuplicateInWindow ==
    [][(/\ Called
        /\ hist.mark # NoBarrage
        /\ cur'.content = hist.mark.content
        /\ cur'.timestamp - hist.mark.timestamp < dedup_window)
       => IsDuplicate(result')]_vars

\* C3: the second of two events with one content, the first of which passed
\* the dedup gate at t1, is a duplicate when t2 - t1 < dedup_window, provided
\* the content key recorded for the first is still in the dedup cache (the
\* LRU bound has not evicted it).
C3_DuplicateInWindowWhileCached ==
    [][(/\ Called
        /\ hist.mark # NoBarrage
        /\ hist.mark_live
        /\ cur'.content = hist.mark.content
        /\ cur'.timestamp - hist.mark.timestamp < dedup_window)
       => /\ IsDuplicate(result')
          /\ gates' = <<"basic_filter", "dedup">>]_vars

\* another user repeats the content one second before the window closes
C3_Witness ==
    /\ IsDuplicate(result)
    /\ hist.mark # NoBarrage
    /\ hist.mark_live
    /\ cur.content = hist.mark.content
    /\ cur.user_id # hist.mark.user_id
    /\ cur.timestamp - hist.mark.timestamp = dedup_window - 1

\* C4 as stated: once (u, c) passed the dedup gate, every later event with
\* the same (u, c) is a duplicate.
C4_OwnRepeatAlwaysDuplicate ==
    [][(/\ Called
        /\ hist.mark # NoBarrage
        /\ cur'.content = hist.mark.content
        /\ cur'.user_id = hist.mark.user_id)
       => IsDuplicate(result')]_vars

\* C4: an event whose user+content key is in the dedup cache is a duplicate
\* whatever its timestamp; the key is there from the time (u, c) passes the
\* dedup gate until the LRU bound evicts it.
C4_OwnRepeatDuplicateWhileCached ==
    [][Called =>
        /\ user_key(cur') \in DOMAIN dedup_cache.cache => IsDuplicate(result')
        /\ ("dedup" \in Range(gates') /\ ~IsDuplicate(result')) =>
               user_key(cur') \in DOMAIN dedup_cache'.cache]_vars

\* the same user repeats the content after the window has closed, and the
\* stored content timestamp is that old too
C4_Witness ==
    /\ IsDuplicate(result)
    /\ hist.mark # NoBarrage
    /\ cur.content = hist.mark.content
    /\ cur.user_id = hist.mark.user_id
    /\ cur.timestamp - hist.mark.timestamp >= dedup_window
    /\ content_key(cur) \in DOMAIN dedup_cache.cache
    /\ cur.timestamp - dedup_cache.cache[content_key(cur)] >= dedup_window

\* C5 as stated: an event whose content key was recorded at t1, observed at
\* t2 with t2 - t1 >= dedup_window, is not a duplicate.
C5_NotDuplicateAfterWindow ==
    [][(/\ Called
        /\ content_key(cur') \in DOMAIN dedup_cache.cache
        /\ cur'.timestamp - dedup_cache.cache[content_key(cur')] >= dedup_window)
       => ~IsDuplicate(result')]_vars

\* C5: an event whose content key was recorded at t1, observed at t2 with
\* t2 - t1 >= dedup_window, is not a duplicate unless its own user+content
\* key is in the dedup cache; when it passes, t2 replaces t1.
C5_NotDuplicateAfterWindowOtherUser ==
    [][(/\ Called
        /\ content_key(cur') \in DOMAIN dedup_cache.cache
        /\ cur'.timestamp - dedup_cache.cache[content_key(cur')] >= dedup_window
        /\ user_key(cur') \notin DOMAIN dedup_cache.cache)
       => /\ ~IsDuplicate(result')
          /\ content_key(cur') \in DOMAIN dedup_cache'.cache
          /\ dedup_cache'.cache[content_key(cur')] = cur'.timestamp]_vars

\* another user repeats the content exactly dedup_window after it was
\* recorded, and passes the dedup gate
C5_Witness ==
    /\ hist.mark # NoBarrage
    /\ hist.mark_live
    /\ cur # hist.mark
    /\ cur.content = hist.mark.content
    /\ cur.user_id # hist.mark.user_id
    /\ cur.timestamp - hist.mark.timestamp = dedup_window
    /\ "dedup" \in Range(gates)
    /\ ~IsDuplicate(result)

\* C6: 0 <= tokens <= capacity after any sequence of consume calls at any
\* readings of time.time().
C6_TokensInRange ==
    /\ 0 <= rate_limiter.tokens
    /\ rate_limiter.tokens <= rate_limiter.capacity

\* C7: from a full bucket of capacity c, while no call has refilled it, the
\* first c events to reach the rate limit are admitted (Process or Batch) and
\* every one after them gets Defer, reason rate_limit, delay 2.0; the bucket
\* holds c minus the admitted tokens.
C7_CapacityThenDefer ==
    [][(Called /\ hist'.consumed # "none" /\ hist'.no_refill) =>
        /\ IF hist.granted < Capacity
           THEN /\ hist'.consumed = "ok"
                /\ result'.action \in {"process", "batch"}
                /\ hist'.granted = hist.granted + 1
           ELSE /\ hist'.consumed = "rejected"
                /\ result' = ProcessResult("defer", 0, "rate_limit", DeferDelay)
                /\ hist'.granted = Capacity
        /\ rate_limiter'.tokens = (Capacity - hist'.granted) * TokenUnit]_vars

\* the event after Capacity admitted ones, with no refill in between
C7_Witness ==
    /\ result = ProcessResult("defer", 0, "rate_limit", DeferDelay)
    /\ hist.no_refill
    /\ hist.granted = Capacity
    /\ hist.calls = Capacity + 1
    /\ rate_limiter.tokens = 0

\* C8: an LRUCache never stores more than maxsize entries, and access_order
\* lists exactly the stored keys, each once.
C8_SizeBound ==
    /\ Cardinality(DOMAIN dedup_cache.cache) <= dedup_cache.maxsize
    /\ Len(dedup_cache.access_order) = Cardinality(DOMAIN dedup_cache.cache)
    /\ Range(dedup_cache.access_order) = DOMAIN dedup_cache.cache

\* maxsize + 1 distinct keys were put and the cache holds maxsize
C8_Witness ==
    /\ Len(hist.ins_order) = LruMaxSize + 1
    /\ Cardinality(DOMAIN dedup_cache.cache) = LruMaxSize

\* C9: a put of a new key into a full LRUCache evicts exactly one entry, the
\* least recently put or got, and not the most recently used one; after
\* maxsize + 1 puts of distinct keys into an empty cache exactly the first
\* key put is gone.
C9_EvictsLeastRecent ==
    [][/\ \A key \in LruKeys :
              (/\ key \notin DOMAIN dedup_cache.cache
               /\ key \in DOMAIN dedup_cache'.cache
               /\ Cardinality(DOMAIN dedup_cache.cache) = dedup_cache.maxsize)
              => /\ DOMAIN dedup_cache.cache \ DOMAIN dedup_cache'.cache
                        = {Head(hist.recency)}
                 /\ DOMAIN dedup_cache'.cache
                        = (DOMAIN dedup_cache.cache \ {Head(hist.recency)}) \cup {key}
                 /\ hist.recency[Len(hist.recency)] \in DOMAIN dedup_cache'.cache
       /\ Cardinality(DOMAIN dedup_cache.cache) < dedup_cache.maxsize
              => DOMAIN dedup_cache.cache \subseteq DOMAIN dedup_cache'.cache
       /\ (hist'.only_puts /\ Len(hist'.ins_order) = LruMaxSize + 1)
              => DOMAIN dedup_cache'.cache
                     = Range(hist'.ins_order) \ {hist'.ins_order[1]}]_vars

\* a put into a full cache evicted a key after a get hit had changed the
\* order of use
C9_Witness ==
    /\ hist.evicted # {}
    /\ hist.refreshed
    /\ Cardinality(DOMAIN dedup_cache.cache) = LruMaxSize

\* C10 as stated: no state has a non-empty window that waits unflushed when
\* max_wait_time has elapsed since the window start.
C10_NoStaleWindow ==
    (current_batch # <<>> /\ pc = "idle") => now - last_process_time < max_wait_time

\* C10: the window is flushed by the add_to_batch call that brings its size
\* to batch_size or that is made more than max_wait_time after the last
\* flush, and by nothing else; a window that waits holds fewer than
\* batch_size events, and a flush empties it.
C10_FlushOnAdd ==
    [][/\ Len(current_batch') = Len(current_batch) + 1 =>
              (pc' = "flush") =
                  (\/ Len(current_batch') >= BatchSize
                   \/ now - last_process_time > max_wait_time)
       /\ pc' = "flush" => (pc = "flush" \/ Len(current_batch') = Len(current_batch) + 1)
       /\ (pc = "flush" /\ pc' # "flush") =>
              (current_batch' = <<>> /\ last_process_time' = now)
       /\ pc' # "flush" => Len(current_batch') < BatchSize]_vars

\* one event flushed alone, by the add_to_batch call that finds the wait over
C10_Witness ==
    /\ pc = "flush"
    /\ Len(current_batch) = 1
    /\ now - last_process_time > max_wait_time

\* the barrage of a window with the highest confidence the funnel computed
\* for it, the earliest of them when several have it
BestByFunnel(v, batch) ==
    batch[CHOOSE i \in 1..Len(batch) :
              \A j \in 1..Len(batch) :
                  \/ LocalOf[v][batch[j].content] < LocalOf[v][batch[i].content]
                  \/ LocalOf[v][batch[j].content] = LocalOf[v][batch[i].content] /\ i <= j]

\* C11: the content a flush generates the reply for is that of the barrage
\* of the flushed window with the highest Batch confidence of the funnel, the
\* earliest on a tie; the flush leaves the window empty and the window start
\* at the time of the flush.
C11_FlushSelectsHighestConfidence ==
    [][(pc = "flush" /\ pc' # "flush") =>
        /\ hist'.selected # None =>
               hist'.selected = BestByFunnel(variant, current_batch).content
        /\ current_batch' = <<>>
        /\ last_process_time' = now]_vars

\* add_to_batch appends a barrage to the window in the step
Added == Len(current_batch') = Len(current_batch) + 1

\* C12 as stated: while the events of a window arrive within max_wait_time
\* of its first event, the adds that leave fewer than batch_size events in
\* the window return nothing and the add of the batch_size-th flushes.
C12_FlushAtBatchSize ==
    [][(Added /\ now - hist'.window_start < max_wait_time) =>
        IF Len(current_batch') < BatchSize
        THEN pc' = "idle" /\ reply' = None
        ELSE pc' = "flush"]_vars

\* C12: while the adds are made within max_wait_time of the last flush (of
\* the construction, before the first flush), the adds that leave fewer than
\* batch_size events in the window return nothing and keep them buffered, and
\* the add of the batch_size-th flushes once, exactly the batch_size events
\* added since the last flush.
C12_FlushAtBatchSizeSinceLastFlush ==
    [][/\ (Added /\ now - last_process_time <= max_wait_time) =>
              /\ current_batch' = Append(current_batch, cur')
              /\ IF Len(current_batch') < BatchSize
                 THEN pc' = "idle" /\ reply' = None
                 ELSE pc' = "flush" /\ Len(current_batch') = BatchSize
       /\ (pc = "flush" /\ pc' # "flush") =>
              /\ hist'.flushed = current_batch
              /\ current_batch' = <<>>
              /\ pc' = "idle"
       /\ (pc = "flush" /\ pc' = "flush") => current_batch' = current_batch]_vars

\* batch_size distinct events, added within max_wait_time of the
\* construction, are flushed together
C12_Witness ==
    /\ hist.flushed # <<>>
    /\ Len(hist.flushed) = BatchSize
    /\ Cardinality(Range(hist.flushed)) = BatchSize
    /\ hist.oracle_calls = 1
    /\ stats.batch_processed = BatchSize
    /\ current_batch = <<>>

\* C13: an event routed to Batch is only buffered; _immediate_process, the
\* oracle / reply generator for a single event, is never started for it.
C13_BatchOnlyBuffered ==
    result.action = "batch" => pc # "immediate"

\* C17: an event that process_barrage deferred is not handed to the oracle /
\* reply generator; it goes through the funnel again.
C17_DeferResubmits ==
    [][(pc = "sleep" /\ pc' # "sleep") =>
        /\ pc' # "immediate"
        /\ hist'.oracle_calls = hist.oracle_calls
        /\ hist'.calls = hist.calls + 1]_vars

\* C19: a call of process_barrage that returns Defer leaves the dedup cache
\* and the batch window as they were and subtracts no token.
C19_DeferStoresNothing ==
    [][(Called /\ result'.action = "defer") =>
        /\ dedup_cache' = dedup_cache
        /\ current_batch' = current_batch
        /\ rate_limiter'.tokens >= rate_limiter.tokens]_vars

\* C20: in the funnel with the forced-keyword gate, a barrage that passes the
\* basic filter, is not a duplicate and contains a forced keyword gets Process
\* with confidence 1.0, whatever its scores and the tokens in the bucket, and
\* no token is consumed for it.
C20_ForcedKeywordProcess ==
    [][(/\ Called
        /\ variant = "simple"
        /\ basic_filter(variant, cur')
        /\ ~is_duplicate(dedup_cache, cur').dup
        /\ ForcedMatch(variant, cur'.content))
       => /\ result' = ProcessResult("process", FullConfidence,
                                     "high_value_keyword_match", 0)
          /\ rate_limiter' = rate_limiter]_vars

\* a forced keyword whose keyword score is under the keyword floor, met with
\* an empty bucket
C20_Witness ==
    /\ variant = "simple"
    /\ result.action = "process"
    /\ result.confidence = FullConfidence
    /\ ForcedMatch(variant, cur.content)
    /\ calculate_score(variant, cur.content) < keyword_threshold(variant)
    /\ classify(variant, cur.content) < local_score_threshold(variant)
    /\ rate_limiter.tokens < TokenUnit

\* C18: the barrage of a call that returned Defer, submitted again by the
\* same user with a later timestamp once the delay has passed and the bucket
\* holds a token, gets Process or Batch.
C18_DeferRecoverable ==
    [][(/\ Called
        /\ result.action = "defer"
        /\ cur'.content = cur.content
        /\ cur'.user_id = cur.user_id
        /\ cur'.timestamp > cur.timestamp
        /\ now - rate_limiter.last_refill >= DeferDelay
        /\ consume_ok(rate_limiter, TokenUnit, now))
       => result'.action \in {"process", "batch"}]_vars

RECURSIVE Concat(_)
\* the sequences of a sequence, joined
Concat(seqs) == IF seqs = <<>> THEN <<>> ELSE Head(seqs) \o Concat(Tail(seqs))

\* the tasks inside _process_batch
Flushing == {t \in Tasks : tasks[t].pc = "flush"}

\* the barrages of the tasks suspended at processing_lock
Waiting == {tasks[t].barrage : t \in {u \in Tasks : tasks[u].pc = "waiting"}}

\* C14: append-and-maybe-flush is one critical section under every
\* interleaving.  At most one task is inside a flush, it holds the lock, and
\* the window it flushes is the window as it stands; every barrage routed to
\* Batch is waiting for the lock or was appended once, and every appended
\* barrage is in exactly one flushed window or still in the current one.
C14_AddsSerialized ==
    /\ Cardinality(Flushing) <= 1
    /\ processing_lock = None <=> Flushing = {}
    /\ \A t \in Flushing : processing_lock = t /\ tasks[t].batch = current_batch
    /\ hist.appended = Concat(hist.batches) \o current_batch
    /\ Cardinality(Range(hist.appended)) = Len(hist.appended)
    /\ Waiting \cap Range(hist.appended) = {}
    /\ {tasks[t].barrage : t \in {u \in Tasks : tasks[u].action = "batch"}}
           = Waiting \cup Range(hist.appended)

\* a barrage is submitted while another call awaits the oracle inside a
\* flush: its call waits for the lock
C14_Witness ==
    \E t, u \in Tasks :
        /\ tasks[t].pc = "flush"
        /\ tasks[u].pc = "waiting"
        /\ Len(tasks[t].batch) = BatchSize

\* the tasks whose barrage the rate limiter admitted
Admitted == {t \in Tasks : tasks[t].action \in {"process", "batch"}}

\* C15: under every interleaving a consume is one step.  The bucket changes
\* only in a process_barrage call, by one whole consume; every admitted event
\* has a granted token of its own, so while nothing was refilled at most
\* capacity events are admitted and the bucket holds the rest.
C15_ConsumeAtomic ==
    [][/\ rate_limiter' # rate_limiter =>
              Called /\ rate_limiter' = consume(rate_limiter, TokenUnit, now)
       /\ hist'.granted = hist.granted + 1 =>
              /\ Called
              /\ consume_ok(rate_limiter, TokenUnit, now)
              /\ Cardinality({t \in Tasks : tasks'[t].action \in {"process", "batch"}})
                     = Cardinality(Admitted) + 1
       /\ hist'.no_refill =>
              /\ hist'.granted <= Capacity
              /\ rate_limiter'.tokens = (Capacity - hist'.granted) * TokenUnit]_vars

\* the bucket is emptied by calls that are still in flight, and the next
\* call is deferred
C15_Witness ==
    /\ hist.no_refill
    /\ Cardinality(Admitted) = Capacity
    /\ rate_limiter.tokens = 0
    /\ \E t \in Tasks : tasks[t].pc = "sleep"
    /\ \E u \in Admitted : tasks[u].pc \in {"immediate", "flush", "waiting"}

\* the tasks whose barrage passed the dedup gate
PassedDedup == {t \in Tasks : tasks[t].action \notin {"none", "ignore"}}

\* C16: under every interleaving the fingerprint an earlier call recorded is
\* visible to a later call.  A barrage whose content an earlier call let
\* through the dedup gate, with a timestamp inside the window, is answered
\* Ignore 'duplicate', so no two calls with one content both pass the gate.
C16_FingerprintVisible ==
    [][Called =>
        /\ \A u \in PassedDedup :
               (/\ tasks[u].barrage.content = cur'.content
                /\ cur'.timestamp - tasks[u].barrage.timestamp < dedup_window)
               => IsDuplicate(result')
        /\ ~IsDuplicate(result') => content_key(cur') \in DOMAIN dedup_cache'.cache
        /\ \A t, u \in Tasks :
               (/\ t # u
                /\ tasks'[t].action \notin {"none", "ignore"}
                /\ tasks'[u].action \notin {"none", "ignore"})
               => tasks'[t].barrage.content # tasks'[u].barrage.content]_vars

\* another user sends the content of a barrage whose call is still awaiting
\* the oracle
C16_Witness ==
    /\ IsDuplicate(result)
    /\ \E t, u \in Tasks :
           /\ tasks[t].barrage = cur
           /\ tasks[t].action = "ignore"
           /\ u \in PassedDedup
           /\ tasks[u].pc \in {"flush", "immediate", "sleep", "waiting"}
           /\ tasks[u].barrage.content = cur.content
           /\ tasks[u].barrage.user_id # cur.user_id

----------------------------------------------------------------------------
IgnoreReasons == {"basic_filter", "duplicate", "low_keyword_score", "low_local_score"}

\* C21: a call of process_barrage_stream whose barrage process_barrage answers
\* with Ignore, for any of the four reasons, leaves the token bucket (tokens
\* and last_refill) and the batch window as they were, returns no reply and
\* awaits neither the oracle nor the reply generator.
C21_IgnoreTouchesNothing ==
    [][(Called /\ result'.action = "ignore") =>
        /\ result'.reason \in IgnoreReasons
        /\ rate_limiter' = rate_limiter
        /\ current_batch' = current_batch
        /\ last_process_time' = last_process_time
        /\ reply' = None
        /\ pc' = "idle"
        /\ hist'.oracle_calls = hist.oracle_calls
        /\ hist'.consumed = "none"
        /\ stats'.ai_calls = stats.ai_calls
        /\ stats'.ignored_count = stats.ignored_count + 1]_vars

\* a duplicate is ignored while the window holds an event and a token is spent
C21_Witness ==
    /\ result.action = "ignore"
    /\ result.reason = "duplicate"
    /\ current_batch # <<>>
    /\ rate_limiter.tokens < Capacity * TokenUnit
    /\ pc = "idle"
    /\ stats.ignored_count >= 2

\* C22: a barrage that passes the basic filter, the dedup gate, the forced
\* keywords and both floors, and that the rate limiter grants a token, is
\* answered Process when its local score is above 0.8 and Batch when it is
\* 0.8 or less; the confidence is the local score, and the call takes exactly
\* one token from the refilled bucket.
C22_RouteByLocalScore ==
    [][(/\ Called
        /\ GateOrder(variant)[FirstFiring(variant, cur', dedup_cache,
                                          rate_limiter, now)] = "routing") =>
        LET local_score == classify(variant, cur'.content) IN
        /\ result'.action = IF local_score > HighConfidence THEN "process" ELSE "batch"
        /\ result'.confidence = local_score
        /\ result'.reason = ""
        /\ rate_limiter'.tokens = refill(rate_limiter, now).tokens - TokenUnit
        /\ hist'.granted = hist.granted + 1]_vars

\* ji dian? scores 0.761 in ai_judge.py, the local score nearest under 0.8:
\* it is batched, for the second token of the bucket
C22_Witness ==
    /\ variant = "full"
    /\ cur.content = C_jidianq
    /\ result = ProcessResult("batch", 7610, "", 0)
    /\ gates[Len(gates)] = "routing"
    /\ hist.granted = 2
    /\ rate_limiter.tokens = (Capacity - 2) * TokenUnit

\* the malformed barrages: the type is not a text type, or the content is
\* null, empty, shorter than 2 or longer than the maximum after trimming, or
\* made of emoji only
Malformed(v, barrage) ==
    \/ barrage.type \notin TextTypes
    \/ barrage.content = NullContent
    \/ LET content == Strip(barrage.content) IN
       \/ Len(content) < 2
       \/ Len(content) > max_content_length(v)
       \/ \A i \in 1..Len(content) : content[i] \in Emoji \cup OtherEmoji

\* C23: process_barrage answers every malformed barrage with Ignore, reason
\* basic_filter; it raises nothing, and leaves the dedup cache and the token
\* bucket as they were.
C23_MalformedIgnored ==
    [][(Called /\ Malformed(variant, cur')) =>
        /\ result' = ProcessResult("ignore", 0, "basic_filter", 0)
        /\ dedup_cache' = dedup_cache
        /\ rate_limiter' = rate_limiter]_vars

\* C24: when the oracle or the reply generator fails while an admitted
\* barrage or a flushed window is handled, process_barrage_stream returns no
\* reply (and returns: the exception is caught).
C24_FailureGivesNoReply ==
    [][(pc \in {"immediate", "flush"} /\ pc' = "idle" /\ hist'.failed) =>
        reply' = None]_vars

\* C25: after every call of the dedup gate that reports the barrage new, the
\* dedup cache holds the content key and the user+content key of the barrage,
\* both with the timestamp of the call, whatever timestamp the content key
\* had before.
C25_NewIsRecorded ==
    [][(Called /\ "dedup" \in Range(gates') /\ ~IsDuplicate(result')) =>
        /\ content_key(cur') \in DOMAIN dedup_cache'.cache
        /\ user_key(cur') \in DOMAIN dedup_cache'.cache
        /\ dedup_cache'.cache[content_key(cur')] = cur'.timestamp
        /\ dedup_cache'.cache[user_key(cur')] = cur'.timestamp]_vars

\* the content key held the timestamp of another user's barrage, whose
\* user+content key still holds it
C25_Witness ==
    /\ "dedup" \in Range(gates)
    /\ ~IsDuplicate(result)
    /\ hist.mark # NoBarrage
    /\ hist.mark_live
    /\ hist.mark.content = cur.content
    /\ hist.mark.user_id # cur.user_id
    /\ hist.mark.timestamp < cur.timestamp
    /\ user_key(hist.mark) \in DOMAIN dedup_cache.cache
    /\ dedup_cache.cache[user_key(hist.mark)] = hist.mark.timestamp
    /\ dedup_cache.cache[content_key(cur)] = cur.timestamp
    /\ dedup_cache.cache[user_key(cur)] = cur.timestamp

\* C26: when a call of add_to_batch returns, after a flush or without one,
\* under every interleaving of the callers and whatever the oracle answered,
\* the window holds fewer than batch_size barrages.
C26_WindowBelowBatchSize ==
    [][\A t \in Tasks :
          (/\ tasks[t].action = "batch" \/ tasks'[t].action = "batch"
           /\ tasks[t].pc # "done"
           /\ tasks'[t].pc = "done")
          => Len(current_batch') < BatchSize]_vars

\* a window of batch_size barrages was flushed, and a later add has returned
\* leaving its barrage in the window
C26_Witness ==
    /\ \E i \in DOMAIN hist.batches : Len(hist.batches[i]) = BatchSize
    /\ Len(current_batch) = BatchSize - 1
    /\ Flushing = {}
    /\ \E t \in Tasks :
           /\ tasks[t].pc = "done"
           /\ tasks[t].action = "batch"
           /\ tasks[t].barrage = current_batch[Len(current_batch)]

\* C27: a consume(1) called on an empty bucket exactly 1 / refill_rate seconds
\* after its last refill finds exactly one token: it succeeds, leaves the
\* bucket empty, and a consume(1) that follows at once fails.
C27_OneTokenAfterOnePeriod ==
    [][(/\ Called
        /\ rate_limiter.tokens = 0
        /\ (now - rate_limiter.last_refill) * RefillRate = TokenUnit) =>
        /\ refill(rate_limiter, now).tokens = TokenUnit
        /\ hist'.consumed = "ok"
        /\ rate_limiter'.tokens = 0
        /\ rate_limiter'.last_refill = now
        /\ ~consume_ok(rate_limiter', TokenUnit, now)
        /\ consume(rate_limiter', TokenUnit, now) = rate_limiter']_vars

\* the bucket was emptied by capacity calls, and the call one period later
\* was granted
C27_Witness ==
    /\ hist.before.tokens = 0
    /\ (now - hist.before.last_refill) * RefillRate = TokenUnit
    /\ hist.calls = Capacity + 1
    /\ hist.granted = Capacity + 1
    /\ hist.consumed = "ok"
    /\ rate_limiter.tokens = 0

\* the value the last scoring call returned
Returned(fn) == result.action = fn

\* C28: for every content calculate_score returns a value in [0, 1], and
\* classify returns min(1, 0.7 * keyword score + 0.3 * question score), also
\* in [0, 1], where the question score is min(1, 0.3 * the number of question
\* patterns the content matches).
C28_ScoresInUnitInterval ==
    LET content == cur.content
        keyword_score == calculate_score(variant, content)
        question_score == Min(1000, 300 * QuestionHits(content))
    IN  /\ Returned("calculate_score") =>
              /\ result.confidence = keyword_score
              /\ 0 <= result.confidence /\ result.confidence <= 1000
        /\ Returned("classify") =>
              /\ result.confidence = Min(10000, 7 * keyword_score + 3 * question_score)
              /\ 0 <= result.confidence /\ result.confidence <= 10000
              /\ 0 <= question_score /\ question_score <= 1000

\* ji dian duo shao qian shen me?: keywords worth 1.7 and four question
\* patterns, both scores are cut to 1 and classify returns 1
C28_Witness ==
    /\ Returned("classify")
    /\ variant = "full"
    /\ QuestionHits(cur.content) = 4
    /\ calculate_score_unclamped(variant, cur.content) > 1000
    /\ result.confidence = 10000

\* C29: spam comes first.  A content whose trimmed text matches a spam
\* pattern scores 0 whatever keywords it holds, and so does a content whose
\* trimmed text is shorter than 2.
C29_SpamScoresZero ==
    Returned("calculate_score") =>
        /\ is_spam(Strip(cur.content)) => result.confidence = 0
        /\ Len(Strip(cur.content)) < 2 => result.confidence = 0

\* C30: a lookup of the dedup gate that finds its key in the cache, the
\* content key or the user+content key, is a use of the entry: after a call
\* that reports a duplicate the key that was found last is the most recently
\* used one, and a content key that was found before it comes right before it.
C30_LookupIsUse ==
    [][(Called /\ IsDuplicate(result')) =>
        LET ck == content_key(cur')
            uk == user_key(cur')
            order == dedup_cache'.access_order
            found == ck \in DOMAIN dedup_cache.cache
            by_content == found /\ cur'.timestamp - dedup_cache.cache[ck] < dedup_window
        IN  IF by_content
            THEN order[Len(order)] = ck
            ELSE /\ order[Len(order)] = uk
                 /\ found => order[Len(order) - 1] = ck]_vars

\* C39: after any sequence of get and put on an LRUCache with maxsize >= 1,
\* access_order holds every key of cache exactly once and nothing else; so
\* the key that get or put removes by value is there, and the queue that put
\* pops from when the cache is full is not empty.
C39_AccessOrderListsKeys ==
    LET order == dedup_cache.access_order
        keys == DOMAIN dedup_cache.cache
    IN  /\ dedup_cache.maxsize >= 1
        /\ \A key \in keys : Cardinality({i \in 1..Len(order) : order[i] = key}) = 1
        /\ \A i \in 1..Len(order) : order[i] \in keys
        /\ Cardinality(keys) >= dedup_cache.maxsize => order # <<>>

\* a put has evicted from a full cache whose order of use a get hit had
\* changed, and the cache is full again
C39_Witness ==
    /\ Len(dedup_cache.access_order) = LruMaxSize
    /\ dedup_cache.access_order = hist.recency
    /\ hist.refreshed
    /\ hist.evicted # {}
    /\ ~hist.only_puts
    /\ reply = None

----------------------------------------------------------------------------
(* Rejection by a score floor and the dedup cache *)

\* the reasons of the keyword floor and of the local floor
FloorReasons == {"low_keyword_score", "low_local_score"}

\* process_barrage sends a new `barrage` to a score floor, which rejects it
FloorRejected(v, barrage) ==
    /\ barrage.type \in TextTypes
    /\ FilterOf[v][barrage.type][barrage.content]
    /\ ~(v = "simple" /\ ForcedOf[v][barrage.content])
    /\ \/ ScoreOf[v][barrage.content] < keyword_threshold(v)
       \/ LocalOf[v][barrage.content] < local_score_threshold(v)

\* C33 as stated: the marked barrage was rejected by a score floor; the same
\* content inside dedup_window, or the same user and content at any time, is
\* then ignored as 'duplicate'
C33_RejectedThenDuplicate ==
    [][(/\ Called
        /\ hist.mark # NoBarrage
        /\ FloorRejected(variant, hist.mark)
        /\ cur'.content = hist.mark.content
        /\ \/ cur'.timestamp - hist.mark.timestamp < dedup_window
           \/ cur'.user_id = hist.mark.user_id)
       => IsDuplicate(result')]_vars

\* C33 amended: a call that a score floor rejects has recorded both
\* fingerprints of its barrage with the barrage's timestamp; while the content
\* fingerprint of the rejected barrage is cached, the same content inside
\* dedup_window is ignored as 'duplicate', and while the user fingerprint is
\* cached, the same user and content is, at any timestamp
C33_RejectedIsRecorded ==
    [][Called =>
        /\ (result'.action = "ignore" /\ result'.reason \in FloorReasons)
           => /\ content_key(cur') \in DOMAIN dedup_cache'.cache
              /\ user_key(cur') \in DOMAIN dedup_cache'.cache
              /\ dedup_cache'.cache[content_key(cur')] = cur'.timestamp
              /\ dedup_cache'.cache[user_key(cur')] = cur'.timestamp
        /\ (/\ hist.mark # NoBarrage
            /\ FloorRejected(variant, hist.mark)
            /\ cur'.content = hist.mark.content
            /\ \/ /\ cur'.timestamp - hist.mark.timestamp < dedup_window
                  /\ hist.mark_live
               \/ /\ cur'.user_id = hist.mark.user_id
                  /\ user_key(cur') \in DOMAIN dedup_cache.cache)
           => IsDuplicate(result')]_vars

\* the barrage a score floor rejected is submitted again as it was, after a
\* call for another barrage, and is ignored as a duplicate
C33_Witness ==
    /\ hist.mark # NoBarrage
    /\ FloorRejected(variant, hist.mark)
    /\ cur = hist.mark
    /\ hist.calls = 3
    /\ hist.mark_live
    /\ IsDuplicate(result)
    /\ Cardinality(DOMAIN dedup_cache.cache) = 4

----------------------------------------------------------------------------
(* The dedup window does not slide *)

\* C34: a call that returns 'duplicate' leaves every stored timestamp as it
\* was and stores no new fingerprint; a call that is not a duplicate stores
\* its own timestamp under the content fingerprint.  So the window of a
\* content is anchored at its last sighting that was not a duplicate: the same
\* content from a user whose fingerprint is not cached is a duplicate while
\* less than dedup_window has passed since that sighting, and passes the dedup
\* gate again once dedup_window has passed, whatever duplicates came between.
C34_WindowAnchored ==
    [][Called =>
        /\ IsDuplicate(result') => dedup_cache'.cache = dedup_cache.cache
        /\ ("dedup" \in Range(gates') /\ ~IsDuplicate(result'))
           => dedup_cache'.cache[content_key(cur')] = cur'.timestamp
        /\ (/\ hist.mark # NoBarrage
            /\ hist.mark_live
            /\ dedup_cache.cache[content_key(hist.mark)] = hist.mark.timestamp
            /\ cur'.content = hist.mark.content
            /\ user_key(cur') \notin DOMAIN dedup_cache.cache)
           => (IsDuplicate(result')
                 <=> cur'.timestamp - hist.mark.timestamp < dedup_window)]_vars

\* a content was recorded at 0 for one user, a call between was a duplicate
\* and stored nothing, and the same content from the other user at
\* dedup_window passed the dedup gate
C34_Witness ==
    /\ hist.mark # NoBarrage
    /\ hist.mark.timestamp = 0
    /\ hist.calls = 3
    /\ cur.content = hist.mark.content
    /\ cur.user_id # hist.mark.user_id
    /\ cur.timestamp = dedup_window
    /\ ~IsDuplicate(result)
    /\ "dedup" \in Range(gates)
    /\ DOMAIN dedup_cache.cache
         = {content_key(cur), user_key(cur), user_key(hist.mark)}
    /\ dedup_cache.cache[user_key(hist.mark)] = 0
    /\ dedup_cache.cache[content_key(cur)] = dedup_window

----------------------------------------------------------------------------
(* The flush timer *)

\* C35: the flush timer runs from last_process_time, which only a flush sets
\* (to the reading at the flush) and which is the reading at construction
\* before the first flush; the reading at which the window got its first
\* event plays no part.  An event added to an empty window is flushed by its
\* add, alone, exactly when more than max_wait_time has passed since
\* last_process_time (batch_size being more than 1): at max_wait_time exactly
\* it stays buffered.
C35_TimerFromLastFlush ==
    [][/\ last_process_time' # last_process_time =>
              (pc = "flush" /\ pc' = "idle" /\ last_process_time' = now)
       /\ (Added /\ current_batch = <<>> /\ BatchSize > 1) =>
              /\ hist'.window_start = now
              /\ IF now - last_process_time > max_wait_time
                 THEN pc' = "flush" /\ current_batch' = <<cur'>>
                 ELSE pc' = "idle" /\ reply' = None
       /\ (pc = "flush" /\ pc' = "idle" /\ Len(current_batch) = 1) =>
              hist'.flushed = current_batch /\ current_batch' = <<>>]_vars

\* an event added to the empty window more than max_wait_time after the
\* construction was flushed alone, by its own add
C35_Witness ==
    /\ pc = "idle"
    /\ Len(hist.flushed) = 1
    /\ hist.flushed = <<cur>>
    /\ result.action = "batch"
    /\ now > max_wait_time
    /\ last_process_time = now
    /\ current_batch = <<>>

\* an event added to the empty window exactly max_wait_time after the
\* construction waits in the window
C35_WitnessAtLimit ==
    /\ pc = "idle"
    /\ current_batch = <<cur>>
    /\ now - last_process_time = max_wait_time
    /\ hist.window_start = now

----------------------------------------------------------------------------
(* The requests of a flush *)

\* C31 as stated: a flush with the API client ready makes one request to the
\* oracle for the whole window, whatever the number of events in it
C31_OneOracleCallPerFlush ==
    [][(pc = "flush" /\ pc' = "idle" /\ api_ready) =>
           hist'.oracle_calls = hist.oracle_calls + 1]_vars

\* what the code does: one judge_barrages request for every group of three
\* events of the window
C31_OneCallPerGroupOfThree ==
    [][(pc = "flush" /\ pc' = "idle") =>
           hist'.oracle_calls - hist.oracle_calls
               = IF api_ready
                 THEN (Len(current_batch) + JudgeGroupSize - 1) \div JudgeGroupSize
                 ELSE 0]_vars

\* a window of batch_size events was flushed with two requests
C31_Witness ==
    /\ Len(hist.flushed) = batch_size
    /\ hist.oracle_calls = 2
    /\ hist.calls = batch_size
    /\ api_ready

----------------------------------------------------------------------------
(* What a flush leaves behind *)

\* C36: every flush, whatever the oracle and the reply generator did (a
\* reply, no valuable result, api_ready False, an exception), hands over the
\* whole window, leaves the window empty and sets last_process_time to the
\* reading at its end; the window is untouched while the flush waits, and an
\* add appends its own event only, so the window after a flush starts with
\* the first event added after it.
C36_FlushAlwaysEmpties ==
    [][/\ (pc = "flush" /\ pc' # "flush") =>
              /\ pc' = "idle"
              /\ hist'.flushed = current_batch
              /\ current_batch' = <<>>
              /\ last_process_time' = now
              /\ reply' # None => (api_ready /\ ~hist'.failed)
       /\ (pc = "flush" /\ pc' = "flush") => current_batch' = current_batch
       /\ pc = "idle" =>
              \/ current_batch' = current_batch
              \/ current_batch' = Append(current_batch, cur')
       /\ hist'.oracle_calls # hist.oracle_calls => (pc = "flush" /\ api_ready)]_vars

\* a flush of several events in which the oracle or the generator raised has
\* returned nothing and left the window empty, at a reading after 0
C36_Witness ==
    /\ hist.failed
    /\ Len(hist.flushed) > 1
    /\ reply = None
    /\ current_batch = <<>>
    /\ pc = "idle"
    /\ last_process_time = now
    /\ now > 0

\* a flush made while api_ready was False has left the window empty too
C36_WitnessNotReady ==
    /\ ~api_ready
    /\ Len(hist.flushed) > 1
    /\ hist.oracle_calls = 0
    /\ current_batch = <<>>
    /\ pc = "idle"
    /\ last_process_time = now
    /\ now > 0

\* the first add after a failed flush starts a new window
C36_WitnessNextWindow ==
    /\ current_batch = <<cur>>
    /\ pc = "idle"
    /\ last_process_time > 0
    /\ hist.calls > 2

----------------------------------------------------------------------------
(* Spam *)

\* the content as calculate_score hands it to _is_spam matches a pattern
SpamContent(barrage) == is_spam(Lower(Strip(barrage.content)))

\* C32: a barrage whose content matches a spam pattern is never forwarded:
\* process_barrage returns Ignore for it, and leaves the token bucket alone
C32_SpamNeverForwarded ==
    [][(Called /\ SpamContent(cur')) =>
           /\ result'.action = "ignore"
           /\ rate_limiter' = rate_limiter]_vars

\* what holds of ai_judge.py: spam is ignored by the keyword floor, or
\* earlier, and no token is consumed for it
C32_SpamIgnoredByFullFunnel ==
    [][(Called /\ SpamContent(cur') /\ variant = "full") =>
           /\ result'.action = "ignore"
           /\ result'.reason \in {"duplicate", "low_keyword_score"}
           /\ rate_limiter' = rate_limiter]_vars

----------------------------------------------------------------------------
(* Retries and cost of an API call *)

\* the delays before the second and the third attempt
RetryWaits == <<1, 2>>

\* C38: a _call_openai_api call makes at most max_retries HTTP attempts and
\* sleeps 1 s, then 2 s, between them; it returns at the first attempt that
\* succeeds, having called record_call once; it raises after max_retries
\* failures, or before any attempt when within_budget() is False, and has
\* then recorded nothing.
C38_RetryDiscipline ==
    /\ hist.posts <= max_retries
    /\ hist.waits = SubSeq(RetryWaits, 1, Len(hist.waits))
    /\ api_call.pc = "post" =>
           (hist.posts = api_call.attempt /\ Len(hist.waits) = hist.posts
            /\ hist.recorded = 0 /\ ~hist.refused)
    /\ api_call.pc = "sleep" =>
           (hist.posts = api_call.attempt + 1 /\ Len(hist.waits) = hist.posts
            /\ hist.posts < max_retries /\ hist.recorded = 0)
    /\ api_call.pc = "returned" =>
           (hist.posts >= 1 /\ Len(hist.waits) = hist.posts - 1
            /\ hist.recorded = 1 /\ cost_tracker.daily_cost >= 1)
    /\ api_call.pc = "raised" =>
           /\ hist.recorded = 0
           /\ IF hist.refused
              THEN hist.posts = 0 /\ cost_tracker.daily_cost >= DailyBudget
              ELSE hist.posts = max_retries /\ hist.waits = RetryWaits

\* the cost moves by one call when a call returns, is set to zero by the
\* first call of a new day, and is touched by nothing else
C38_CostOncePerSuccess ==
    [][cost_tracker' # cost_tracker =>
           \/ /\ api_call.pc = "post" /\ api_call'.pc = "returned"
              /\ cost_tracker'.daily_cost
                     = check_reset(cost_tracker, today).daily_cost + 1
           \/ /\ hist'.calls = hist.calls + 1
              /\ cost_tracker' = check_reset(cost_tracker, today)]_vars

\* a call returned at its third attempt, after waits of 1 s and 2 s
C38_Witness ==
    /\ api_call.pc = "returned"
    /\ hist.posts = max_retries
    /\ hist.waits = RetryWaits
    /\ hist.recorded = 1

\* a call raised after three failures; a later one was refused for the budget
C38_WitnessRaised ==
    /\ api_call.pc = "raised"
    /\ hist.posts = max_retries
    /\ cost_tracker.daily_cost = 1

C38_WitnessRefused ==
    /\ api_call.pc = "raised"
    /\ hist.refused
    /\ hist.posts = 0

----------------------------------------------------------------------------
(* The polling loop *)

\* the barrages the loop has collected and not reached yet
Pending ==
    IF loop.pc = "await"
    THEN {loop.new_barrages[k].id : k \in (loop.i + 1)..Len(loop.new_barrages)}
    ELSE {}

\* C37: the polling loop hands a buffered barrage to process_barrage_stream
\* at most once, and at most one reply is produced between two of its sleeps;
\* the barrages that come after the one that got the reply are marked
\* processed and are never handed over, in that tick or later.  A barrage is
\* marked exactly when the loop has collected it.
C37_SubmittedAtMostOnce ==
    /\ \A m, n \in DOMAIN hist.submitted :
           m # n => hist.submitted[m] # hist.submitted[n]
    /\ hist.tick_replies <= 1
    /\ hist.skipped \cap Range(hist.submitted) = {}
    /\ hist.skipped \cap Pending = {}
    /\ \A k \in DOMAIN barrage_buffer :
           barrage_buffer[k].processed
               <=> barrage_buffer[k].id
                       \in Range(hist.submitted) \cup hist.skipped \cup Pending

\* a barrage was left out by the break of one tick, and in a later tick the
\* loop handed over a barrage received after it
C37_Witness ==
    /\ hist.tick_replies = 0
    /\ loop.pc = "await"
    /\ \E k \in DOMAIN barrage_buffer :
           /\ barrage_buffer[k].id \in hist.skipped
           /\ barrage_buffer[k].processed
           /\ hist.submitted[Len(hist.submitted)] > barrage_buffer[k].id

====
